---- MODULE Spec2Model ----
(***************************************************************************)
(* OOK Raw Data Receiver: the categorizer pipeline (clusterer, aggregator, *)
(* classifier, extractor, resorber, corrector and the categorizer driver)  *)
(* as a state machine over the flagged duration array v[1..count+2].       *)
(* Target: ATmega328P, so int and unsigned int are 16 bits wide.           *)
(***************************************************************************)
EXTENDS Integers, Sequences, FiniteSets, TLC

VARIABLES
    v,          \* signal_duration[]: flagged durations, v[1] is the first HIGH
    v0,         \* the duration array as handed over by the recorder
    seqlen,     \* sequence_length (rs.count): index of the last LOW of the payload
    unrel,      \* unreliable_count
    z,          \* duration_category[2]: z[HIGH], z[LOW]
    zc,         \* the category sets as the two clusterer calls left them
    pc,         \* position in categorizer / clusterer / corrector
    pol,        \* polarity of the running clusterer call
    overlap,    \* cluster_overlap
    rc,         \* return_code
    ret,        \* value returned by categorizer, -1 while it runs
    h,          \* locals of the clusterer's histogram loop
    cor,        \* locals of the corrector
    q,          \* classifier call: query and result
    rsb,        \* the last resorber call: arguments and result
    rs,         \* recorded_signals: what recorder hands over
    rec,        \* locals of recorder
    printed     \* the categorized sequence that sequence_printer has written

vars == <<v, v0, seqlen, unrel, z, zc, pc, pol, overlap, rc, ret, h, cor, q, rsb, rs, rec, printed>>

----------------------------------------------------------------------------
\* categorizer.h

NC == 8
NA == 8
NO == 16
NM == 2 * NO
NB == 32
NH == 2 * NB
CEIL == 65000
HIGH == 1
LOW == 0
BORDER_WIDTH == 8
START_VAL == 50
MAX_HOLES == 1
FIRST_HITS == 2
MIN_SIZE == 3
C_OPT_2 == 2
C_OPT_3 == 3
C_OPT_4 == 4
CRC_0 == 0
CRC_2 == 2
CRC_3 == 3
CRC_4 == 4
CRC_5 == 5
CRC_6 == 6
CRC_7 == 7
CRC_10 == 10
CRC_11 == 11
CRC_12 == 12
CRC_13 == 13
CRC_16 == 16
CRC_17 == 17
CRC_18 == 18

\* uint16_t / uint8_t assignment
U16(x) == x % 65536
U8(x) == x % 256
\* x & MSB
MSB(x) == x - (x % 2)
\* x & LSB
LSB(x) == x % 2
Shl(x, k) == x * (2 ^ k)
Shr(x, k) == x \div (2 ^ k)
Abs(x) == IF x > 0 THEN x ELSE 0 - x
Min2(a, b) == IF a < b THEN a ELSE b

\* typedef struct categories; the arrays hold the written entries only
NoCategories ==
    [cluster_size |-> 0, cluster_count |-> <<>>, cluster_ceil |-> <<>>,
     cluster_center |-> <<>>, cluster_floor |-> <<>>,
     outlier_size |-> 0, outlier_ind |-> <<>>,
     aggreg_size_1 |-> 0, aggreg_size_2 |-> 0, aggreg_center |-> <<>>,
     separator_barrier |-> 0, inlier_count |-> 0]

----------------------------------------------------------------------------
\* categorizer_lib.cpp: 3.4 classifier

\* a search that also stops at a cluster whose ceil equals v_val
RECURSIVE HigherCeilInclusive(_, _, _)
HigherCeilInclusive(zz, v_val, cat_ind) ==
    IF cat_ind >= zz.cluster_size THEN cat_ind
    ELSE IF v_val <= zz.cluster_ceil[cat_ind + 1] THEN cat_ind
    ELSE HigherCeilInclusive(zz, v_val, cat_ind + 1)

\* for (cat_ind= 0; cat_ind < z.cluster_size; cat_ind++) if (v_val < z.cluster_ceil[cat_ind]) goto ...
RECURSIVE HigherCeil(_, _, _)
HigherCeil(zz, v_val, cat_ind) ==
    IF cat_ind >= zz.cluster_size THEN cat_ind
    ELSE IF v_val < zz.cluster_ceil[cat_ind + 1] THEN cat_ind
    ELSE HigherCeil(zz, v_val, cat_ind + 1)

\* delta < (cat_val >> option)
NearEnough(delta, cat_val, option) == delta < Shr(cat_val, option)

\* a scan that adopts no aggregation
AggregScanNone(zz, v_val, a_ind, cur) == cur

\* (B) scan of the aggregations, a_ind .. aggreg_size_2 - 1
RECURSIVE AggregScan(_, _, _, _)
AggregScan(zz, v_val, a_ind, cur) ==
    IF a_ind >= zz.aggreg_size_2 THEN cur
    ELSE LET d1 == zz.aggreg_center[a_ind + 1]
             d2 == IF v_val > d1 THEN v_val - d1 ELSE d1 - v_val
         IN  IF d2 < cur.delta
             THEN AggregScan(zz, v_val, a_ind + 1,
                     [cat_ind |-> zz.cluster_size + a_ind, cat_val |-> d1, delta |-> d2])
             ELSE AggregScan(zz, v_val, a_ind + 1, cur)

\* return (delta < (cat_val >> option)) for the category found
Nearest(a, option) ==
    [near |-> NearEnough(a.delta, a.cat_val, option), cat_ind |-> a.cat_ind, cat_val |-> a.cat_val]

\* CONTINUE_WITH_AGGREGATIONS, cat_val= z.cluster_center[cat_ind]
ContinueWith(zz, v_val, cat_ind, cat_val, delta, option) ==
    IF NearEnough(delta, cat_val, option)
    THEN [near |-> TRUE, cat_ind |-> cat_ind, cat_val |-> cat_val]
    ELSE Nearest(AggregScan(zz, v_val, 0,
                     [cat_ind |-> cat_ind, cat_val |-> cat_val, delta |-> delta]), option)

\* CONTINUE_WITH_AGGREGATIONS
ContinueWithAggregations(zz, v_val, cat_ind, delta, option) ==
    ContinueWith(zz, v_val, cat_ind, zz.cluster_center[cat_ind + 1], delta, option)

\* if (d1 < d2): the cluster above is nearer than the cluster below
NearerAbove(zz, v_val, k, d1, d2, option) ==
    IF d1 < d2
    THEN ContinueWithAggregations(zz, v_val, k, d1, option)
    ELSE ContinueWithAggregations(zz, v_val, k - 1, d2, option)

\* the cluster part (A) for the first cluster k with v_val < cluster_ceil[k]
ClassifyAt(zz, v_val, option, k) ==
    IF k >= zz.cluster_size
    THEN ContinueWithAggregations(zz, v_val, zz.cluster_size - 1,
             U16(v_val - zz.cluster_center[zz.cluster_size]), option)
    ELSE IF v_val >= zz.cluster_floor[k + 1]
    THEN [near |-> TRUE, cat_ind |-> k, cat_val |-> zz.cluster_center[k + 1]]
    ELSE IF k = 0
    THEN ContinueWithAggregations(zz, v_val, 0, U16(zz.cluster_center[1] - v_val), option)
    ELSE NearerAbove(zz, v_val, k, U16(zz.cluster_center[k + 1] - v_val),
                     U16(v_val - zz.cluster_center[k]), option)

\* classifier (z, v_val, cat_ind, cat_val, option)
classifier(zz, v_val, option) == ClassifyAt(zz, v_val, option, HigherCeil(zz, v_val, 0))

----------------------------------------------------------------------------
\* categorizer_lib.cpp: 3.7 helpers

\* the do-while of the insertion sorts: shift s[j-1] up while it is greater than tmp
RECURSIVE ShiftDown(_, _, _, _)
ShiftDown(s, j, tmp, key) ==
    LET s1 == [s EXCEPT ![j] = s[j - 1]]
        j1 == j - 1
    IN  IF j1 > 1 /\ key[s1[j1 - 1]] > key[tmp]
        THEN ShiftDown(s1, j1, tmp, key)
        ELSE [s1 EXCEPT ![j1] = tmp]

\* index_sort: insertion sort of the indices s[1..n] by key[s[i]], from position i on
RECURSIVE IndexSortFrom(_, _, _)
IndexSortFrom(s, i, key) ==
    IF i > Len(s) THEN s
    ELSE IF key[s[i - 1]] > key[s[i]]
         THEN IndexSortFrom(ShiftDown(s, i, s[i], key), i + 1, key)
         ELSE IndexSortFrom(s, i + 1, key)

index_sort(key, s) == IF Len(s) < 2 THEN s ELSE IndexSortFrom(s, 2, key)

\* the values as their own keys
Identity(s) == [x \in {s[i] : i \in 1..Len(s)} |-> x]

\* sort: insertion sort of the values s[1..n]
sort(s) == IF Len(s) < 2 THEN s ELSE IndexSortFrom(s, 2, Identity(s))

\* merge of two ascending arrays
RECURSIVE merge(_, _)
merge(a, b) ==
    IF a = <<>> THEN b
    ELSE IF b = <<>> THEN a
    ELSE IF Head(a) < Head(b) THEN <<Head(a)>> \o merge(Tail(a), b)
    ELSE <<Head(b)>> \o merge(a, Tail(b))

----------------------------------------------------------------------------
\* categorizer_lib.cpp: 3.3 aggregator

\* (v_below + (v_above >> 3)) > v_above, in unsigned 16 bit arithmetic
SameAggregation(v_below, v_above) == U16(v_below + Shr(v_above, 3)) > v_above

\* inner do-while: values of one aggregation, starting at position o_ind (0-based)
RECURSIVE AggregInner(_, _, _, _)
AggregInner(vals, o_ind, v_sum, v_count) ==
    LET v_below == vals[o_ind + 1]
        s == v_sum + v_below
        c == U8(v_count + 1)
    IN  IF o_ind >= Len(vals) - 1
        THEN [o_ind |-> o_ind, v_sum |-> s, v_count |-> c, ende |-> TRUE]
        ELSE IF SameAggregation(v_below, vals[o_ind + 2])
             THEN AggregInner(vals, o_ind + 1, s, c)
             ELSE [o_ind |-> o_ind + 1, v_sum |-> s, v_count |-> c, ende |-> FALSE]

\* if (v_count > v_min_count) z.aggreg_center[z.aggreg_size_2++]= center & MSB
Materialize(centers, center, v_count, v_min_count) ==
    IF v_count > v_min_count THEN Append(centers, MSB(center)) ELSE centers

\* if (z.aggreg_size_2 >= NC): the aggregation table is full
AggregFull(centers) == Len(centers) >= NC

\* the value left over behind the last aggregation, o_ind == o_last
LastValue(vals, o_ind, centers, v_min_count) ==
    IF AggregFull(centers) THEN [centers |-> centers, rc |-> CRC_4]
    ELSE [centers |-> Materialize(centers, vals[o_ind + 1], 1, v_min_count), rc |-> CRC_0]

\* outer do-while and the trailing single value
RECURSIVE AggregOuter(_, _, _, _)
RECURSIVE AggregNext(_, _, _, _, _)
AggregNext(vals, o_ind, ende, centers, v_min_count) ==
    IF ende THEN [centers |-> centers, rc |-> CRC_0]
    ELSE IF o_ind < Len(vals) - 1 THEN AggregOuter(vals, o_ind, centers, v_min_count)
    ELSE IF o_ind = Len(vals) - 1 THEN LastValue(vals, o_ind, centers, v_min_count)
    ELSE [centers |-> centers, rc |-> CRC_17]

\* one aggregation g: center= v_sum / v_count
AggregOne(vals, g, centers, v_min_count) ==
    AggregNext(vals, g.o_ind, g.ende,
               Materialize(centers, U16(g.v_sum \div g.v_count), g.v_count, v_min_count),
               v_min_count)

AggregOuter(vals, o_ind, centers, v_min_count) ==
    IF AggregFull(centers) THEN [centers |-> centers, rc |-> CRC_4]
    ELSE AggregOne(vals, AggregInner(vals, o_ind, 0, 0), centers, v_min_count)

\* the values of the outliers in the order of outlier_ind
ValuesOf(vv, outlier_ind) == [i \in 1..Len(outlier_ind) |-> vv[outlier_ind[i]]]

\* the category set after the aggregation r of the sorted outliers
Aggregated(z1, sorted, r) ==
    [z |-> [z1 EXCEPT !.outlier_ind = sorted, !.aggreg_center = r.centers,
                      !.aggreg_size_2 = Len(r.centers)],
     rc |-> r.rc]

\* index_sort, then the aggregation of the sorted values
AggregateSorted(z1, vv, sorted, v_min_count) ==
    Aggregated(z1, sorted, AggregOuter(ValuesOf(vv, sorted), 0, z1.aggreg_center, v_min_count))

\* an aggregator that appends to the aggregations it finds
KeepLevel2(zz) == zz

\* z.aggreg_size_2= z.aggreg_size_1
ResetLevel2(zz) ==
    [zz EXCEPT !.aggreg_size_2 = zz.aggreg_size_1,
               !.aggreg_center = SubSeq(zz.aggreg_center, 1, zz.aggreg_size_1)]

\* aggregator (z, v, v_min_count, rc): returns the category set and rc
aggregator(zz, vv, v_min_count) ==
    IF zz.outlier_size < 1 THEN [z |-> ResetLevel2(zz), rc |-> CRC_0]
    ELSE AggregateSorted(ResetLevel2(zz), vv, index_sort(vv, zz.outlier_ind), v_min_count)

----------------------------------------------------------------------------
\* categorizer.cpp: 2.1.1 histogram clustering

\* bin_width= 1 << bin_width_2log (uint16_t)
BinWidth(w2) == U16(Shl(1, w2))

\* a histogram that takes every value from its floor on
HistCeilOpen(h_floor_val, w2) == CEIL

\* h_ceil_val: h_floor_val + NB * bin_width, limited to CEIL_U
HistCeil(h_floor_val, w2) ==
    IF h_floor_val + NB * BinWidth(w2) > CEIL THEN CEIL ELSE h_floor_val + NB * BinWidth(w2)

\* the filter of the bin filling: the value or one of its neighbours is flagged
Untrusted(vv, v_ind) ==
    LSB(vv[v_ind]) = 1 \/ LSB(vv[v_ind + 1]) = 1 \/ LSB(vv[v_ind - 1]) = 1

\* if (v_val < h_floor_val) continue
BelowFloor(v_val, h_floor_val) == v_val < h_floor_val

\* body of the bin filling loop for one index
FillOne(vv, v_ind, st, h_floor_val, h_ceil_val, w2) ==
    LET v_val == vv[v_ind]
    IN  IF BelowFloor(v_val, h_floor_val) THEN st
        ELSE IF Untrusted(vv, v_ind) THEN st
        ELSE IF v_val >= h_ceil_val
        THEN [st EXCEPT !.h_next_floor = Min2(v_val, st.h_next_floor)]
        ELSE LET b_ind == U8(Shr(v_val - h_floor_val, w2))
             IN  IF b_ind >= NB THEN [st EXCEPT !.rc = CRC_10]
                 ELSE IF st.bin_count[b_ind + 1] >= 255 THEN st
                 ELSE LET bc == [st.bin_count EXCEPT ![b_ind + 1] = @ + 1]
                      IN  IF Len(st.h_hit_ind) < NH
                          THEN [st EXCEPT !.bin_count = bc,
                                          !.h_hit_ind = IF bc[b_ind + 1] <= FIRST_HITS
                                                        THEN Append(@, v_ind) ELSE @]
                          ELSE [st EXCEPT !.bin_count = bc, !.rc = CRC_6]

\* for (v_ind= v_start_ind + BORDER_WIDTH; v_ind <= v_stop_ind - BORDER_WIDTH; v_ind+= 2)
RECURSIVE FillFrom(_, _, _, _, _, _, _)
FillFrom(vv, v_ind, v_last, st, h_floor_val, h_ceil_val, w2) ==
    IF v_ind > v_last \/ st.rc # CRC_0 THEN st
    ELSE FillFrom(vv, v_ind + 2, v_last,
                  FillOne(vv, v_ind, st, h_floor_val, h_ceil_val, w2),
                  h_floor_val, h_ceil_val, w2)

\* while ((b_ind < NB) && (bin_count[b_ind++] == 0));
RECURSIVE SkipEmpty(_, _)
SkipEmpty(bin_count, b_ind) ==
    IF b_ind >= NB THEN b_ind
    ELSE IF bin_count[b_ind + 1] = 0 THEN SkipEmpty(bin_count, b_ind + 1)
    ELSE b_ind + 1

\* search of the stop bin: more than MAX_HOLES consecutive empty bins end the run
RECURSIVE StopScan(_, _, _, _)
StopScan(bin_count, b_ind, c_hole_count, inlier) ==
    IF b_ind >= NB THEN [b_ind |-> b_ind, bin_stop_ind |-> NB, inlier |-> inlier]
    ELSE IF bin_count[b_ind + 1] > 0
    THEN StopScan(bin_count, b_ind + 1, 0,
                  IF c_hole_count > 0 THEN U8(inlier + 1) ELSE inlier)
    ELSE IF c_hole_count + 1 > MAX_HOLES
    THEN [b_ind |-> b_ind, bin_stop_ind |-> b_ind - MAX_HOLES, inlier |-> inlier]
    ELSE StopScan(bin_count, b_ind + 1, c_hole_count + 1, inlier)

\* check overlapping clusters: sliding sum of three bins, descending then ascending
RECURSIVE OverlapScan(_, _, _, _, _, _)
OverlapScan(bin_count, b_ind, bin_stop_ind, ascending, c_prev_count, c_count0) ==
    IF b_ind >= bin_stop_ind THEN [overlap |-> FALSE, bin_stop_ind |-> bin_stop_ind]
    ELSE LET c_count == U16(c_count0 + bin_count[b_ind + 1])
         IN  IF ascending
             THEN OverlapScan(bin_count, b_ind + 1, bin_stop_ind,
                              ~(U16(c_count + 3) < c_prev_count), c_count,
                              U16(c_count - bin_count[b_ind - 1]))
             ELSE IF c_count > U16(c_prev_count + 3)
             THEN [overlap |-> TRUE, bin_stop_ind |-> b_ind - 2]
             ELSE OverlapScan(bin_count, b_ind + 1, bin_stop_ind, FALSE, c_count,
                              U16(c_count - bin_count[b_ind - 1]))

\* an overlap check that never looks at the run
OverlapCheckNever(bin_count, bin_start_ind, bin_stop_ind) ==
    [overlap |-> FALSE, bin_stop_ind |-> bin_stop_ind]

\* if (bin_stop_ind - bin_start_ind >= 6) ...
OverlapCheck(bin_count, bin_start_ind, bin_stop_ind) ==
    IF bin_stop_ind - bin_start_ind >= 6
    THEN OverlapScan(bin_count, bin_start_ind + 2, bin_stop_ind, TRUE, 0,
                     bin_count[bin_start_ind + 1] + bin_count[bin_start_ind + 2])
    ELSE [overlap |-> FALSE, bin_stop_ind |-> bin_stop_ind]

\* c_count and bin_mean over the bins bin_start_ind .. bin_stop_ind - 1
RECURSIVE BinSum(_, _, _, _)
BinSum(bin_count, b_ind, bin_stop_ind, k) ==
    IF b_ind >= bin_stop_ind THEN [c_count |-> 0, bin_mean |-> 0]
    ELSE LET r == BinSum(bin_count, b_ind + 1, bin_stop_ind, k + 1)
         IN  [c_count |-> r.c_count + bin_count[b_ind + 1],
              bin_mean |-> r.bin_mean + k * bin_count[b_ind + 1]]

\* bin_count[b_ind]= 0 for b_ind in from .. to - 1
ZeroBins(bin_count, from, to) ==
    [b \in 1..NB |-> IF b - 1 >= from /\ b - 1 < to THEN 0 ELSE bin_count[b]]

\* z.cluster_center[c_ind]
ClusterCenter(bin_start_ind, bin_mean, c_count, w2, h_floor_val) ==
    U16(MSB(Shl(bin_start_ind, w2) + (Shl(bin_mean, w2) \div c_count)
            + h_floor_val - Shr(BinWidth(w2), 1)))

\* a floor that leaves out the start bin
ClusterFloorHigh(bin_start_ind, w2, h_floor_val) ==
    U16(Shl(bin_start_ind + 1, w2) + h_floor_val)

\* z.cluster_floor[c_ind]
ClusterFloor(bin_start_ind, w2, h_floor_val) == U16(Shl(bin_start_ind, w2) + h_floor_val)

\* a ceil that includes the bin behind the stop bin
ClusterCeilWide(bin_stop_ind, w2, h_floor_val) == U16(Shl(bin_stop_ind + 1, w2) + h_floor_val)

\* z.cluster_ceil[c_ind]
ClusterCeil(bin_stop_ind, w2, h_floor_val) == U16(Shl(bin_stop_ind, w2) + h_floor_val)

\* if (++c_ind >= NC): the cluster just recorded leaves no room for another one
TooManyClusters(c_ind) == c_ind >= NC

\* h_next_floor of a run that touches the top of the histogram
RequeueFloor(bin_start_ind, w2, h_floor_val) == U16(Shl(bin_start_ind, w2) + h_floor_val)

\* record cluster: count, center, floor, ceil of the bins bin_start_ind .. bin_stop_ind - 1
RecordCluster(st, bin_start_ind, bin_stop_ind, sum, w2, h_floor_val) ==
    [st EXCEPT !.bin_count = ZeroBins(@, bin_start_ind, bin_stop_ind),
               !.cluster_count = Append(@, U16(sum.c_count)),
               !.cluster_center = Append(@, ClusterCenter(bin_start_ind, sum.bin_mean,
                                                          sum.c_count, w2, h_floor_val)),
               !.cluster_floor = Append(@, ClusterFloor(bin_start_ind, w2, h_floor_val)),
               !.cluster_ceil = Append(@, ClusterCeil(bin_stop_ind, w2, h_floor_val)),
               !.c_ind = U8(@ + 1)]

\* let the next histogram take care of the run that starts at bin_start_ind
Requeue(st, bin_start_ind, to, w2, h_floor_val) ==
    [st EXCEPT !.h_next_floor = RequeueFloor(bin_start_ind, w2, h_floor_val),
               !.bin_count = ZeroBins(@, bin_start_ind, to)]

\* 2.1.1.2.2 bin clustering: the while (b_ind < NB) loop over the runs of occupied bins
RECURSIVE RunLoop(_, _, _, _)

\* if (++c_ind >= NC) return; b_ind= bin_stop_ind
RunRecorded(st, bin_stop_ind, w2, h_floor_val) ==
    IF TooManyClusters(st.c_ind)
    THEN [st EXCEPT !.cluster_size = NC, !.rc = CRC_3]
    ELSE RunLoop(st, bin_stop_ind, w2, h_floor_val)

\* check number of elements in cluster
RunCount(st, bin_start_ind, bin_stop_ind, sum, w2, h_floor_val) ==
    IF sum.c_count < MIN_SIZE
    THEN RunLoop([st EXCEPT !.outlier_presence_flag = TRUE], bin_stop_ind, w2, h_floor_val)
    ELSE RunRecorded(RecordCluster(st, bin_start_ind, bin_stop_ind, sum, w2, h_floor_val),
                     bin_stop_ind, w2, h_floor_val)

\* the run after the overlap check ov
RunCheck(st, bin_start_ind, ov, w2, h_floor_val) ==
    RunCount([st EXCEPT !.overlap = @ \/ ov.overlap], bin_start_ind, ov.bin_stop_ind,
             BinSum(st.bin_count, bin_start_ind, ov.bin_stop_ind, 1), w2, h_floor_val)

\* the run after the search sc of its stop bin
RunStop(st, bin_start_ind, sc, w2, h_floor_val) ==
    IF sc.b_ind = NB
    THEN IF sc.bin_stop_ind = NB
         THEN Requeue([st EXCEPT !.inlier_count = sc.inlier], bin_start_ind, NB, w2, h_floor_val)
         ELSE [st EXCEPT !.rc = CRC_12, !.inlier_count = sc.inlier]
    ELSE IF sc.bin_stop_ind >= NB
    THEN [st EXCEPT !.rc = CRC_13, !.inlier_count = sc.inlier]
    ELSE RunCheck([st EXCEPT !.inlier_count = sc.inlier], bin_start_ind,
                  OverlapCheck(st.bin_count, bin_start_ind, sc.bin_stop_ind), w2, h_floor_val)

\* the run whose start bin is b_ind - 1, b_ind as the skip of the empty bins left it
RunStart(st, b_ind, w2, h_floor_val) ==
    IF b_ind >= NB
    THEN IF st.bin_count[b_ind] > 0
         THEN Requeue(st, b_ind - 1, b_ind, w2, h_floor_val)
         ELSE st
    ELSE IF U8(b_ind - 1) >= NB THEN [st EXCEPT !.rc = CRC_11]
    ELSE RunStop(st, b_ind - 1, StopScan(st.bin_count, b_ind, 0, st.inlier_count),
                 w2, h_floor_val)

RunLoop(st, b_ind, w2, h_floor_val) ==
    IF b_ind >= NB THEN st
    ELSE RunStart(st, SkipEmpty(st.bin_count, b_ind), w2, h_floor_val)

\* an outlier list that never counts as full
OutlierNeverFull(outlier_ind) == FALSE

\* if (z.outlier_size >= NO): the outlier table is full
OutlierFull(outlier_ind) == Len(outlier_ind) >= NO

\* 2.1.1.2.3 outlier sieving: the recorded hits whose bin was not emptied
RECURSIVE SieveFrom(_, _, _, _, _, _)
SieveFrom(vv, hits, h_ind, st, w2, h_floor_val) ==
    IF h_ind > Len(hits) \/ st.rc # CRC_0 THEN st
    ELSE LET v_ind == hits[h_ind]
             b_ind == U8(Shr(vv[v_ind] - h_floor_val, w2))
         IN  IF st.bin_count[b_ind + 1] > 0
             THEN IF OutlierFull(st.outlier_ind)
                  THEN [st EXCEPT !.rc = CRC_5]
                  ELSE SieveFrom(vv, hits, h_ind + 1,
                          [st EXCEPT !.outlier_ind = Append(@, v_ind),
                                     !.bin_count[b_ind + 1] = @ - 1],
                          w2, h_floor_val)
             ELSE SieveFrom(vv, hits, h_ind + 1, st, w2, h_floor_val)

\* h_next_floor-= bin_width
NextFloor(h_next_floor, w2) == U16(h_next_floor - BinWidth(w2))

\* while (h_next_floor >= h_width) { bin_width_2log++; bin_width<<= 1; h_width+= NB * bin_width; }
RECURSIVE NextWidth(_, _, _)
NextWidth(h_next_floor, h_width, w2) ==
    IF h_next_floor >= h_width
    THEN NextWidth(h_next_floor, h_width + NB * BinWidth(w2 + 1), w2 + 1)
    ELSE w2

----------------------------------------------------------------------------
\* categorizer.cpp: 2.1.2 post-clustering

\* the filter of the border classification
BorderUntrusted(vv, v_ind, v_start_ind, v_stop_ind) ==
    \/ LSB(vv[v_ind]) = 1
    \/ (v_ind < v_stop_ind /\ LSB(vv[v_ind + 1]) = 1)
    \/ (v_ind > v_start_ind /\ LSB(vv[v_ind - 1]) = 1)

\* 2.1.2.1.1 border values classification
RECURSIVE BorderFrom(_, _, _, _, _, _)
BorderFrom(zz, vv, v_ind0, v_start_ind, v_stop_ind, st) ==
    IF v_ind0 > v_stop_ind \/ st.rc # CRC_0 THEN st
    ELSE LET v_ind == IF v_ind0 = v_start_ind + BORDER_WIDTH
                      THEN U16(v_stop_ind - BORDER_WIDTH + 2) ELSE v_ind0
         IN  IF BorderUntrusted(vv, v_ind, v_start_ind, v_stop_ind)
             THEN BorderFrom(zz, vv, v_ind + 2, v_start_ind, v_stop_ind, st)
             ELSE IF classifier(zz, vv[v_ind], C_OPT_3).near \/ ~(v_ind > 1)
             THEN BorderFrom(zz, vv, v_ind + 2, v_start_ind, v_stop_ind, st)
             ELSE IF OutlierFull(st.outlier_ind)
             THEN [st EXCEPT !.rc = CRC_5]
             ELSE BorderFrom(zz, vv, v_ind + 2, v_start_ind, v_stop_ind,
                             [st EXCEPT !.outlier_ind = Append(@, v_ind)])

\* eliminate aggregated outliers: keep those the classifier still rejects
Unclassifiable(zz, vv, outlier_ind) ==
    SelectSeq(outlier_ind, LAMBDA i : ~classifier(zz, vv[i], C_OPT_3).near)

\* z.separator_barrier for a given v_old_barrier
BarrierOf(v_old_barrier) ==
    IF v_old_barrier < CEIL \div 10 THEN 10 * v_old_barrier ELSE CEIL

\* v_new_barrier: the highest outlier value below the barrier
RECURSIVE HighestBelow(_, _, _, _)
HighestBelow(vv, outlier_ind, o_ind, barrier) ==
    IF o_ind > Len(outlier_ind) THEN 0
    ELSE LET rest == HighestBelow(vv, outlier_ind, o_ind + 1, barrier)
             v_val == vv[outlier_ind[o_ind]]
         IN  IF v_val < barrier /\ v_val > rest THEN v_val ELSE rest

\* a barrier that is set once, from the ceil of the highest cluster
BarrierLoopOnce(vv, outlier_ind, v_old_barrier, v_new_barrier, barrier) == BarrierOf(v_new_barrier)

\* 2.1.2.2 while (v_new_barrier > v_old_barrier)
RECURSIVE BarrierLoop(_, _, _, _, _)
BarrierLoop(vv, outlier_ind, v_old_barrier, v_new_barrier, barrier) ==
    IF v_new_barrier > v_old_barrier
    THEN BarrierLoop(vv, outlier_ind, v_new_barrier,
                     HighestBelow(vv, outlier_ind, 1, BarrierOf(v_new_barrier)),
                     BarrierOf(v_new_barrier))
    ELSE barrier

\* 2.1.2.2 and 2.1.2.3: separator barrier, sort of the outlier indices o
Separated(zz, vv, o) ==
    [z |-> [zz EXCEPT !.outlier_ind = sort(o), !.outlier_size = Len(o),
                      !.separator_barrier =
                          BarrierLoop(vv, o, 0, zz.cluster_ceil[zz.cluster_size],
                                      zz.separator_barrier)],
     rc |-> CRC_0]

\* if (rc > CRC_0) return; eliminate aggregated outliers
Pruned(zz, vv, code) ==
    IF code > CRC_0 THEN [z |-> zz, rc |-> code]
    ELSE Separated(zz, vv, Unclassifiable(zz, vv, zz.outlier_ind))

\* aggregator (z, v, MIN_SIZE, rc); z.aggreg_size_1= z.aggreg_size_2
Level1(a, vv) == Pruned([a.z EXCEPT !.aggreg_size_1 = a.z.aggreg_size_2], vv, a.rc)

\* the border outliers b are in the list
Bordered(zz, vv, code) ==
    IF code # CRC_0 THEN [z |-> zz, rc |-> code]
    ELSE Level1(aggregator(zz, vv, MIN_SIZE), vv)

\* the outlier list after the border classification b
WithBorder(zz, vv, b) ==
    Bordered([zz EXCEPT !.outlier_ind = b.outlier_ind, !.outlier_size = Len(b.outlier_ind)],
             vv, b.rc)

\* 2.1.2: border classification, L1 aggregation, barrier, sort; returns z and rc
PostClustering(zz, vv, v_start_ind, v_stop_ind) ==
    WithBorder(zz, vv, BorderFrom(zz, vv, v_start_ind, v_start_ind, v_stop_ind,
                                  [outlier_ind |-> zz.outlier_ind, rc |-> CRC_0]))

----------------------------------------------------------------------------
\* categorizer_lib.cpp: 3.1 extractor

\* find the next start index: for ( ; v_ind <= v_stop_ind - 2; v_ind++)
RECURSIVE FindStart(_, _, _)
FindStart(vv, v_ind, v_stop_ind) ==
    IF v_ind > U16(v_stop_ind - 2) THEN 0
    ELSE IF LSB(vv[v_ind]) = 1 THEN v_ind
    ELSE FindStart(vv, v_ind + 1, v_stop_ind)

\* FIND_STOP_INDEX: for ( ; v_ind <= v_stop_ind; v_ind++)
RECURSIVE FindStop(_, _, _)
FindStop(vv, v_ind, v_stop_ind) ==
    IF v_ind > v_stop_ind THEN 0
    ELSE IF LSB(vv[v_ind]) = 0 THEN v_ind
    ELSE FindStop(vv, v_ind + 1, v_stop_ind)

\* the subsequence from the element in front of a to the reliable element b
Extracted(v_ind, a, b) ==
    IF b = 0
    THEN [found |-> FALSE, v_ind |-> v_ind, ss_start_ind |-> 0, ss_stop_ind |-> 0]
    ELSE [found |-> TRUE, v_ind |-> b + 1, ss_start_ind |-> a - 1, ss_stop_ind |-> b]

\* the second loop, entered only when the first found a flagged value at a
ExtractFrom(vv, v_stop_ind, v_ind, a) ==
    IF a = 0
    THEN [found |-> FALSE, v_ind |-> v_ind, ss_start_ind |-> 0, ss_stop_ind |-> 0]
    ELSE Extracted(v_ind, a, FindStop(vv, a, v_stop_ind))

\* extractor (v, v_stop_ind, v_ind, ss_start_ind, ss_stop_ind)
extractor(vv, v_stop_ind, v_ind) ==
    ExtractFrom(vv, v_stop_ind, v_ind, FindStart(vv, v_ind, v_stop_ind))

----------------------------------------------------------------------------
\* categorizer_lib.cpp: 3.2 resorber

\* rel_delta per thousand: ((int32_t)1000 * abs(v_sum - cat_sum)) / v_sum, stored in uint16_t
RelDelta(v_sum, cat_sum) == U16((1000 * Abs(v_sum - cat_sum)) \div v_sum)

\* sum of v[from .. to]
RECURSIVE SumV(_, _, _)
SumV(vv, from, to) == IF from > to THEN 0 ELSE vv[from] + SumV(vv, from + 1, to)

\* a comparison that never prefers the best fit
BestFitNeverWins(rel_delta, rel_delta_bestfit) == FALSE

\* if (rel_delta > rel_delta_bestfit): best-fit is kept
BestFitWins(rel_delta, rel_delta_bestfit) == rel_delta > rel_delta_bestfit

\* modify the raw data: front, resorbed triple, back
Resorb(vv, s, ss_cat, cat_val) ==
    [vv EXCEPT ![s] = ss_cat[1], ![s + 1] = cat_val, ![s + 2] = 0, ![s + 3] = 0,
               ![s + 4] = ss_cat[5]]

\* cluster or aggregation? an aggregation adds ss_start_ind + 1 to the outliers
Resorbed(zz, v1, s, c, rel_delta) ==
    IF c.cat_ind >= zz.cluster_size
    THEN IF OutlierFull(zz.outlier_ind)
         THEN [ok |-> FALSE, z |-> zz, v |-> v1, rc |-> CRC_5, rel_delta |-> rel_delta]
         ELSE [ok |-> TRUE,
               z |-> [zz EXCEPT !.outlier_ind = Append(@, s + 1), !.outlier_size = @ + 1],
               v |-> v1, rc |-> CRC_0, rel_delta |-> rel_delta]
    ELSE [ok |-> TRUE, z |-> zz, v |-> v1, rc |-> CRC_0, rel_delta |-> rel_delta]

\* return (false) with v, z and rel_delta as they came in
Refused(zz, vv, code, rel_delta_bestfit) ==
    [ok |-> FALSE, z |-> zz, v |-> vv, rc |-> code, rel_delta |-> rel_delta_bestfit]

\* the residual rel_delta of the resorption against the best-fit residual
ResorbIfBetter(zz, vv, ss_cat, s, rel_delta_bestfit, c, rel_delta) ==
    IF BestFitWins(rel_delta, rel_delta_bestfit)
    THEN Refused(zz, vv, CRC_0, rel_delta_bestfit)
    ELSE Resorbed(zz, Resorb(vv, s, ss_cat, c.cat_val), s, c, rel_delta)

\* the triple is classified as c
ResorbClassified(zz, vv, ss_cat, s, ss_stop_ind, rel_delta_bestfit, c) ==
    IF ~c.near THEN Refused(zz, vv, CRC_0, rel_delta_bestfit)
    ELSE ResorbIfBetter(zz, vv, ss_cat, s, rel_delta_bestfit, c,
             RelDelta(SumV(vv, s, ss_stop_ind), U16(ss_cat[1] + c.cat_val + ss_cat[5])))

\* the triple sum with the contributions of the front and the back element is v_sum
ResorbTriple(zz, vv, ss_cat, s, ss_stop_ind, rel_delta_bestfit, v_sum) ==
    IF v_sum > CEIL THEN Refused(zz, vv, CRC_18, rel_delta_bestfit)
    ELSE ResorbClassified(zz, vv, ss_cat, s, ss_stop_ind, rel_delta_bestfit,
             classifier(zz, U16(v_sum), IF rel_delta_bestfit > 100 THEN C_OPT_3 ELSE C_OPT_4))

\* v_sum: the triple under test with the contributions of the front and the back element
TripleSum(vv, ss_cat, s) ==
    (vv[s] - ss_cat[1]) + U16(vv[s + 1] + vv[s + 2] + vv[s + 3]) + (vv[s + 4] - ss_cat[5])

\* resorber (z, v, ss_cat, ss_start_ind, ss_stop_ind, rel_delta, rc)
resorber(zz, vv, ss_cat, s, ss_stop_ind, rel_delta_bestfit) ==
    IF ss_stop_ind - s # 4 THEN Refused(zz, vv, CRC_0, rel_delta_bestfit)
    ELSE ResorbTriple(zz, vv, ss_cat, s, ss_stop_ind, rel_delta_bestfit,
                      TripleSum(vv, ss_cat, s))

----------------------------------------------------------------------------
\* categorizer.cpp: 2.2.1 outlier correction

\* v[curr_v_ind] > z[curr_v_ind & LSB].separator_barrier
AboveBarrier(zs, vv, v_ind) == vv[v_ind] > zs[LSB(v_ind)].separator_barrier

\* the current outlier with its neighbours and their nearest categories (C_OPT_2)
Triple(zs, vv, curr_v_ind, v_start_ind, v_stop_ind) ==
    [curr |-> curr_v_ind, prev |-> U16(curr_v_ind - 1), next |-> U16(curr_v_ind + 1),
     hasPrev |-> U16(curr_v_ind - 1) >= v_start_ind,
     hasNext |-> U16(curr_v_ind + 1) <= v_stop_ind,
     p |-> classifier(zs[LSB(curr_v_ind + 1)], vv[U16(curr_v_ind - 1)], C_OPT_2),
     n |-> classifier(zs[LSB(curr_v_ind + 1)], vv[U16(curr_v_ind + 1)], C_OPT_2),
     c |-> classifier(zs[LSB(curr_v_ind)], vv[curr_v_ind], C_OPT_2)]

\* modify raw data: the triple is replaced by its cluster centers
Centered(vv, t) ==
    [i \in DOMAIN vv |->
        IF i = t.curr THEN MSB(t.c.cat_val)
        ELSE IF i = t.prev /\ t.hasPrev THEN MSB(t.p.cat_val)
        ELSE IF i = t.next /\ t.hasNext THEN MSB(t.n.cat_val)
        ELSE vv[i]]

\* an elimination that hands the recorded value back to the preceding outlier
EliminateRestoring(st, m_ind, t, stray) ==
    IF (IF m_ind >= 1 THEN st.m_outlier_ind[m_ind] = t.prev ELSE stray)
    THEN [st EXCEPT !.v = [Centered(st.v, t) EXCEPT ![t.prev] = st.v[t.prev]],
                    !.m_outlier_ind = [i \in 1..Len(@) |->
                                          IF i = m_ind + 1 \/ i = m_ind THEN 0 ELSE @[i]],
                    !.underflow = @ \/ m_ind < 1,
                    !.before_read = @ \/ m_ind < 1,
                    !.m_ind = m_ind - 2]
    ELSE [st EXCEPT !.v = Centered(st.v, t),
                    !.m_outlier_ind = [@ EXCEPT ![m_ind + 1] = 0],
                    !.before_read = @ \/ m_ind < 1,
                    !.m_ind = m_ind - 1]

\* corrected outlier elimination; stray: the word in front of the buffer happens
\* to equal prev_v_ind when m_outlier_ind[m_ind - 1] is read with m_ind = 0
Eliminate(st, m_ind, t, stray) ==
    IF (IF m_ind >= 1 THEN st.m_outlier_ind[m_ind] = t.prev ELSE stray)
    THEN [st EXCEPT !.v = [Centered(st.v, t) EXCEPT ![t.prev] = t.p.cat_val],
                    !.m_outlier_ind = [i \in 1..Len(@) |->
                                          IF i = m_ind + 1 \/ i = m_ind THEN 0 ELSE @[i]],
                    !.underflow = @ \/ m_ind < 1,
                    !.before_read = @ \/ m_ind < 1,
                    !.m_ind = m_ind - 2]
    ELSE [st EXCEPT !.v = Centered(st.v, t),
                    !.m_outlier_ind = [@ EXCEPT ![m_ind + 1] = 0],
                    !.before_read = @ \/ m_ind < 1,
                    !.m_ind = m_ind - 1]

\* flag: the current outlier is classifiable OR both neighbours are classifiable
Correctable(t) ==
    t.c.near \/ (IF t.hasNext THEN t.n.near /\ (t.hasPrev /\ t.p.near)
                 ELSE t.hasPrev /\ t.p.near)

\* 2.2.1.2 outlier separation: resistant or correctable
Separate(st, m_ind, t, stray) ==
    LET t_center_sum == (IF t.hasPrev THEN t.p.cat_val ELSE 0)
                        + (IF t.hasNext THEN t.n.cat_val ELSE 0)
        v_sum == st.v[t.curr] + (IF t.hasPrev THEN st.v[t.prev] ELSE 0)
                              + (IF t.hasNext THEN st.v[t.next] ELSE 0)
    IN  IF (~Correctable(t)) \/ RelDelta(v_sum, t_center_sum + st.v[t.curr])
                                  < RelDelta(v_sum, t_center_sum + t.c.cat_val)
        THEN [st EXCEPT !.m_ind = m_ind - 1]
        ELSE Eliminate(st, m_ind, t, stray)

\* body of the scan of the merged outliers for m_outlier_ind[m_ind]
CorrectOne(zs, st, m_ind, v_start_ind, v_stop_ind, stray) ==
    IF AboveBarrier(zs, st.v, st.m_outlier_ind[m_ind + 1])
    THEN [st EXCEPT !.m_ind = m_ind - 1]
    ELSE Separate(st, m_ind,
                  Triple(zs, st.v, st.m_outlier_ind[m_ind + 1], v_start_ind, v_stop_ind),
                  stray)

\* for (m_ind= m_outlier_size - 1; m_ind >= 0; m_ind--)
RECURSIVE OutlierScan(_, _, _, _, _)
OutlierScan(zs, st, v_start_ind, v_stop_ind, stray) ==
    IF st.m_ind < 0 THEN st
    ELSE OutlierScan(zs, CorrectOne(zs, st, st.m_ind, v_start_ind, v_stop_ind, stray),
                     v_start_ind, v_stop_ind, stray)

\* split (unmerge) the remaining outliers of one polarity
Split(m_outlier_ind, p) == SelectSeq(m_outlier_ind, LAMBDA i : i # 0 /\ LSB(i) = p)

----------------------------------------------------------------------------
\* categorizer.cpp: 2.2.2 untrusted subsequences correction

\* if (rc > CRC_0) return, after an aggregator call
AggregatorFailed(code) == code > CRC_0

\* the polarity p after the re-aggregation a of its outliers; rc is what a left
Promoted(st, p, a) ==
    [st EXCEPT !.z[p] = a.z, !.rc = a.rc, !.aggreg_fail = @ \/ AggregatorFailed(a.rc)]

\* z.outlier_ind[z.outlier_size++]= v_ind
AddOutlier(zz, v_ind) ==
    [zz EXCEPT !.outlier_ind = Append(@, v_ind), !.outlier_size = @ + 1]

\* 2.2.2.1 unreliable top-values preprocessing: for (v_ind= ss_start_ind; v_ind <= ss_stop_ind; v_ind++)
RECURSIVE PromoteFrom(_, _, _, _)
PromoteFrom(st, vv, v_ind, ss_stop_ind) ==
    IF v_ind > ss_stop_ind \/ st.ret THEN st
    ELSE IF AboveBarrier(st.z, vv, v_ind)
    THEN IF OutlierFull(st.z[LSB(v_ind)].outlier_ind)
         THEN [st EXCEPT !.rc = CRC_5, !.ret = TRUE]
         ELSE PromoteFrom(Promoted(st, LSB(v_ind),
                                   aggregator(AddOutlier(st.z[LSB(v_ind)], v_ind), vv, 0)),
                          vv, v_ind + 1, ss_stop_ind)
    ELSE PromoteFrom(st, vv, v_ind + 1, ss_stop_ind)

\* v[ss_start_ind .. ss_stop_ind]= ss_cat[]
BestFit(vv, ss_cat, ss_start_ind, ss_stop_ind) ==
    [i \in DOMAIN vv |-> IF i >= ss_start_ind /\ i <= ss_stop_ind
                         THEN ss_cat[i - ss_start_ind + 1] ELSE vv[i]]

\* no resorber call so far
NoResorb ==
    [called |-> FALSE, z_in |-> NoCategories, v_in |-> <<>>, ss_cat |-> <<>>,
     ss_start_ind |-> 0, ss_stop_ind |-> 0, rel_delta_in |-> 0,
     ok |-> FALSE, z_out |-> NoCategories, v_out |-> <<>>, rc |-> CRC_0, rel_delta_out |-> 0]

\* the arguments of a resorber call and what it hands back in r
ResorberCall(zz, vv, ss_cat, ss_start_ind, ss_stop_ind, rel_delta, r) ==
    [called |-> TRUE, z_in |-> zz, v_in |-> vv, ss_cat |-> ss_cat,
     ss_start_ind |-> ss_start_ind, ss_stop_ind |-> ss_stop_ind, rel_delta_in |-> rel_delta,
     ok |-> r.ok, z_out |-> r.z, v_out |-> r.v, rc |-> r.rc, rel_delta_out |-> r.rel_delta]

\* 2.2.2.3 the outcome r of the resorber, or the best-fit approximation
JumpElimination(st, vv, ss_cat, ss_start_ind, ss_stop_ind, r) ==
    IF r.ok
    THEN [st EXCEPT !.z[LSB(ss_start_ind + 1)] = r.z, !.v = r.v, !.rc = r.rc]
    ELSE IF r.rc > CRC_0
    THEN [st EXCEPT !.z[LSB(ss_start_ind + 1)] = r.z, !.v = r.v, !.rc = r.rc, !.ret = TRUE]
    ELSE [st EXCEPT !.rc = r.rc, !.v = BestFit(vv, ss_cat, ss_start_ind, ss_stop_ind)]

\* if (resorber (z[(ss_start_ind + 1) & LSB], v, ss_cat, ss_start_ind, ss_stop_ind, rel_delta, rc))
TryResorber(st, vv, ss_cat, ss_start_ind, ss_stop_ind, rel_delta, r) ==
    [JumpElimination(st, vv, ss_cat, ss_start_ind, ss_stop_ind, r) EXCEPT
        !.res = ResorberCall(st.z[LSB(ss_start_ind + 1)], vv, ss_cat, ss_start_ind,
                             ss_stop_ind, rel_delta, r)]

\* the best-fit residual rel_delta is known
ApproximateWith(st, vv, ss_cat, ss_start_ind, ss_stop_ind, rel_delta) ==
    TryResorber(st, vv, ss_cat, ss_start_ind, ss_stop_ind, rel_delta,
                resorber(st.z[LSB(ss_start_ind + 1)], vv, ss_cat, ss_start_ind, ss_stop_ind,
                         rel_delta))

\* 2.2.2.2 check for best-fit approximation; cat: the nearest categories (C_OPT_3)
Approximate(st, vv, ss_start_ind, ss_stop_ind, cat) ==
    LET ss_cat == [k \in DOMAIN cat |-> cat[k].cat_val]
    IN  IF \A k \in DOMAIN cat : cat[k].near
        THEN [st EXCEPT !.v = BestFit(vv, ss_cat, ss_start_ind, ss_stop_ind)]
        ELSE ApproximateWith(st, vv, ss_cat, ss_start_ind, ss_stop_ind,
                 RelDelta(SumV(vv, ss_start_ind, ss_stop_ind), SumV(ss_cat, 1, Len(ss_cat))))

\* the nearest category of every value of the subsequence
Categories(zs, vv, ss_start_ind, ss_stop_ind) ==
    [k \in 1..(ss_stop_ind - ss_start_ind + 1) |->
        classifier(zs[LSB(ss_start_ind + k - 1)], vv[ss_start_ind + k - 1], C_OPT_3)]

\* the subsequence after the promotion of its top values
AfterPromotion(st, vv, ss_start_ind, ss_stop_ind) ==
    IF st.ret THEN st
    ELSE Approximate(st, vv, ss_start_ind, ss_stop_ind,
                     Categories(st.z, vv, ss_start_ind, ss_stop_ind))

\* body of the while (extractor (...)) loop for one untrusted subsequence
Subsequence(zs, vv, code, ss_start_ind, ss_stop_ind) ==
    IF U16(ss_stop_ind - ss_start_ind + 1) < 4 \/ U16(ss_stop_ind - ss_start_ind + 1) > 5
    THEN [z |-> zs, v |-> vv, rc |-> CRC_2, ret |-> TRUE, aggreg_fail |-> FALSE,
          res |-> NoResorb]
    ELSE AfterPromotion(PromoteFrom([z |-> zs, v |-> vv, rc |-> code, ret |-> FALSE,
                                     aggreg_fail |-> FALSE, res |-> NoResorb],
                                    vv, ss_start_ind, ss_stop_ind),
                        vv, ss_start_ind, ss_stop_ind)

----------------------------------------------------------------------------
\* categorizer.cpp: 2 categorizer, as steps over the program state

\* sequence_start_ind= 2 - HIGH / 2 - LOW
StartInd(p) == 2 - p

\* sequence_stop_ind= sequence_length - HIGH / - LOW
StopInd(len, p) == U16(len - p)

\* a corrector that runs whatever the overlap flag says
RunCorrectorAlways(cluster_overlap) == TRUE

\* if (!cluster_overlap) corrector (...)
RunCorrector(cluster_overlap) == ~cluster_overlap

NoHistogram ==
    [h_next_floor |-> 0, bin_width_2log |-> 0, h_floor_val |-> 0, h_ceil_val |-> 0,
     bin_count |-> [b \in 1..NB |-> 0], h_hit_ind |-> <<>>, c_ind |-> 0,
     outlier_presence_flag |-> FALSE]

NoCorrection ==
    [extractor_ind |-> 0, m_outlier_ind |-> <<>>, underflow |-> FALSE, before_read |-> FALSE,
     aggreg_fail |-> FALSE]

NoQuery == [v_val |-> 0, option |-> 0, asked |-> FALSE, near |-> FALSE, cat_ind |-> 0, cat_val |-> 0]

\* radio_lib.h
LONG_PAUSE == 140000
DELTA_STRENGTH == 5
WARM_UP == 8

RRC_0 == 0
RRC_1 == 1
RRC_2 == 2
RRC_3 == 3
RRC_4 == 4
RRC_5 == 5
RRC_6 == 6
RRC_7 == 7
RRC_8 == 8
RRC_9 == 9
RRC_10 == 10
RRC_11 == 11
RRC_12 == 12
RRC_13 == 13
RRC_14 == 14

\* rp.radio_sensitivity
RADIO_SENSITIVITY == 18

\* rp.max_length: the cutoff length of a reception
MaxLength == 16

\* recorded_signals before recorder has run; signal_duration[] has room for the
\* cutoff length, the signal that crosses it and the end record
NoSignals ==
    [duration |-> [i \in 1..(MaxLength + 3) |-> 0],
     strength |-> [i \in 1..WARM_UP |-> 0],
     count |-> 0, ref_strength_high |-> 0, ref_strength_low |-> 0, unreliable_count |-> 0]

NoRecorder ==
    [ind |-> 0, strength_high |-> 0, strength_low |-> 0,
     curr_strength_high |-> 0, prev_strength_low |-> 0,
     cons_reliable_count |-> 0, cons_unreliable_count |-> 0, cons_collision_count |-> 0,
     strength_upper_lim |-> 0, strength_lower_lim |-> 0, ret_code |-> 0]

\* return (return_code)
Return(code) == pc' = "done" /\ rc' = code /\ ret' = code

\* categorizer entry: cluster_overlap= false, then the HIGH clusterer call
Categorizer ==
    /\ pc = "categorizer"
    /\ overlap' = FALSE
    /\ pol' = HIGH
    /\ pc' = "clusterer"
    /\ UNCHANGED <<v, v0, seqlen, unrel, z, zc, rc, ret, h, cor, q, rsb, rs, rec, printed>>

\* 2.1.1.1 first histogram initialization
Clusterer ==
    /\ pc = "clusterer"
    /\ rc' = CRC_0
    /\ z' = [z EXCEPT ![pol] = [NoCategories EXCEPT
                                   !.separator_barrier = z[pol].separator_barrier]]
    /\ h' = [NoHistogram EXCEPT !.h_next_floor = START_VAL, !.bin_width_2log = 4]
    /\ pc' = "fill"
    /\ UNCHANGED <<v, v0, seqlen, unrel, zc, pol, overlap, ret, cor, q, rsb, rs, rec, printed>>

\* v_stop_ind - BORDER_WIDTH: the last index of the scan, unsigned 16 bit
ScanStop(len, p) == U16(StopInd(len, p) - BORDER_WIDTH)

\* the scan runs behind the end record of the recording, v[len + 1] and v[len + 2]
ScanLeavesArray(len, p) == ScanStop(len, p) > len + 2

\* 2.1.1.2.1 bin filling. A scan that leaves the array reads whatever the
\* memory holds: either these words fill the table of the first hits and the
\* scan returns CRC_6, or the scan goes round the 16 bit index for ever
BinFilling ==
    /\ pc = "fill"
    /\ IF ScanLeavesArray(seqlen, pol)
       THEN \E filled \in BOOLEAN :
               IF filled
               THEN Return(CRC_6) /\ zc' = [zc EXCEPT ![pol] = z[pol]] /\ h' = h
               ELSE UNCHANGED <<pc, rc, ret, zc, h>>
       ELSE
       LET h_floor_val == h.h_next_floor
           h_ceil_val == HistCeil(h_floor_val, h.bin_width_2log)
           st == FillFrom(v, U16(StartInd(pol) + BORDER_WIDTH),
                          ScanStop(seqlen, pol),
                          [bin_count |-> h.bin_count, h_hit_ind |-> <<>>,
                           h_next_floor |-> CEIL, rc |-> CRC_0],
                          h_floor_val, h_ceil_val, h.bin_width_2log)
       IN  /\ h' = [h EXCEPT !.h_floor_val = h_floor_val, !.h_ceil_val = h_ceil_val,
                             !.h_next_floor = st.h_next_floor,
                             !.bin_count = st.bin_count, !.h_hit_ind = st.h_hit_ind,
                             !.outlier_presence_flag = FALSE]
           /\ IF st.rc # CRC_0
              THEN Return(st.rc) /\ zc' = [zc EXCEPT ![pol] = z[pol]]
              ELSE pc' = "cluster" /\ UNCHANGED <<rc, ret, zc>>
    /\ UNCHANGED <<v, v0, seqlen, unrel, z, pol, overlap, cor, q, rsb, rs, rec, printed>>

\* 2.1.1.2.2 bin clustering
BinClustering ==
    /\ pc = "cluster"
    /\ LET zp == z[pol]
           st == RunLoop([bin_count |-> h.bin_count, h_next_floor |-> h.h_next_floor,
                          inlier_count |-> zp.inlier_count, overlap |-> overlap,
                          outlier_presence_flag |-> FALSE,
                          cluster_count |-> zp.cluster_count,
                          cluster_center |-> zp.cluster_center,
                          cluster_floor |-> zp.cluster_floor,
                          cluster_ceil |-> zp.cluster_ceil,
                          c_ind |-> h.c_ind, cluster_size |-> zp.cluster_size,
                          rc |-> CRC_0],
                         0, h.bin_width_2log, h.h_floor_val)
           z1 == [z EXCEPT ![pol] = [zp EXCEPT
                      !.cluster_count = st.cluster_count,
                      !.cluster_center = st.cluster_center,
                      !.cluster_floor = st.cluster_floor,
                      !.cluster_ceil = st.cluster_ceil,
                      !.cluster_size = st.cluster_size,
                      !.inlier_count = st.inlier_count]]
       IN  /\ z' = z1
           /\ overlap' = st.overlap
           /\ h' = [h EXCEPT !.bin_count = st.bin_count, !.h_next_floor = st.h_next_floor,
                             !.c_ind = st.c_ind,
                             !.outlier_presence_flag = st.outlier_presence_flag]
           /\ IF st.rc # CRC_0
              THEN Return(st.rc) /\ zc' = [zc EXCEPT ![pol] = z1[pol]]
              ELSE pc' = "sieve" /\ UNCHANGED <<rc, ret, zc>>
    /\ UNCHANGED <<v, v0, seqlen, unrel, pol, cor, q, rsb, rs, rec, printed>>

\* 2.1.1.2.3 outlier sieving
OutlierSieving ==
    /\ pc = "sieve"
    /\ LET st == IF h.outlier_presence_flag
                 THEN SieveFrom(v, h.h_hit_ind, 1,
                                [bin_count |-> h.bin_count,
                                 outlier_ind |-> z[pol].outlier_ind, rc |-> CRC_0],
                                h.bin_width_2log, h.h_floor_val)
                 ELSE [bin_count |-> h.bin_count, outlier_ind |-> z[pol].outlier_ind,
                       rc |-> CRC_0]
           z1 == [z EXCEPT ![pol].outlier_ind = st.outlier_ind,
                           ![pol].outlier_size = Len(st.outlier_ind)]
       IN  /\ z' = z1
           /\ h' = [h EXCEPT !.bin_count = st.bin_count]
           /\ IF st.rc # CRC_0
              THEN Return(st.rc) /\ zc' = [zc EXCEPT ![pol] = z1[pol]]
              ELSE pc' = "next" /\ UNCHANGED <<rc, ret, zc>>
    /\ UNCHANGED <<v, v0, seqlen, unrel, pol, overlap, cor, q, rsb, rs, rec, printed>>

\* 2.1.1.2.4 next histogram initialization, or the end of the histogram loop
NextHistogram ==
    /\ pc = "next"
    /\ IF h.h_next_floor = CEIL
       THEN LET z1 == [z EXCEPT ![pol].cluster_size = h.c_ind]
            IN  /\ z' = z1
                /\ h' = h
                /\ IF h.c_ind = 0
                   THEN Return(CRC_7) /\ zc' = [zc EXCEPT ![pol] = z1[pol]]
                   ELSE pc' = "post" /\ UNCHANGED <<rc, ret, zc>>
       ELSE LET nf == NextFloor(h.h_next_floor, h.bin_width_2log)
            IN  /\ h' = [h EXCEPT !.h_next_floor = nf,
                                  !.bin_width_2log = NextWidth(nf, h.h_ceil_val, @)]
                /\ pc' = "fill"
                /\ UNCHANGED <<z, rc, ret, zc>>
    /\ UNCHANGED <<v, v0, seqlen, unrel, pol, overlap, cor, q, rsb, rs, rec, printed>>

\* 2.1.2 post-clustering, and the return of the clusterer into categorizer
PostClusteringStep ==
    /\ pc = "post"
    /\ LET r == PostClustering(z[pol], v, StartInd(pol), StopInd(seqlen, pol))
           z1 == [z EXCEPT ![pol] = r.z]
       IN  /\ z' = z1
           /\ zc' = [zc EXCEPT ![pol] = r.z]
           /\ IF r.rc # CRC_0
              THEN Return(r.rc) /\ pol' = pol
              ELSE /\ UNCHANGED <<rc, ret>>
                   /\ IF pol = HIGH
                      THEN pol' = LOW /\ pc' = "clusterer"
                      ELSE pol' = pol
                           /\ pc' = IF RunCorrector(overlap) THEN "corrector" ELSE "print"
    /\ UNCHANGED <<v, v0, seqlen, unrel, overlap, h, cor, q, rsb, rs, rec, printed>>

----------------------------------------------------------------------------
\* categorizer.cpp: 2.2 corrector, as steps over the program state

\* 2.2.1.1 / 2.2.1.2: merge, scan of the merged outliers, split
OutlierCorrection ==
    /\ pc = "corrector"
    /\ \E stray \in BOOLEAN :
       IF z[HIGH].cluster_size = 0
       THEN Return(CRC_7) /\ UNCHANGED <<v, z, cor>>
       ELSE IF ~(z[HIGH].outlier_size > 0 \/ z[LOW].outlier_size > 0)
       THEN /\ rc' = CRC_0
            /\ pc' = "untrusted"
            /\ cor' = [NoCorrection EXCEPT !.extractor_ind = 1 + BORDER_WIDTH]
            /\ UNCHANGED <<v, z, ret>>
       ELSE IF z[HIGH].outlier_size + z[LOW].outlier_size > NM
       THEN Return(CRC_16) /\ UNCHANGED <<v, z, cor>>
       ELSE LET m  == merge(z[HIGH].outlier_ind, z[LOW].outlier_ind)
                st == OutlierScan(z, [v |-> v, m_outlier_ind |-> m, m_ind |-> Len(m) - 1,
                                      underflow |-> FALSE, before_read |-> FALSE], 1, seqlen, stray)
            IN  /\ stray => st.underflow
                /\ v' = st.v
                /\ z' = [p \in {LOW, HIGH} |->
                            [z[p] EXCEPT !.outlier_ind = Split(st.m_outlier_ind, p),
                                         !.outlier_size = Len(Split(st.m_outlier_ind, p))]]
                /\ cor' = [NoCorrection EXCEPT !.extractor_ind = 1 + BORDER_WIDTH,
                                               !.m_outlier_ind = st.m_outlier_ind,
                                               !.underflow = st.underflow,
                                               !.before_read = st.before_read]
                /\ rc' = CRC_0
                /\ pc' = "aggregate"
                /\ UNCHANGED ret
    /\ UNCHANGED <<v0, seqlen, unrel, zc, pol, overlap, h, q, rsb, rs, rec, printed>>

\* 2.2.1.3 resistant outlier aggregation (L2 aggreg) of HIGH, then of LOW
ResistantAggregation ==
    /\ pc = "aggregate"
    /\ LET a1 == aggregator(z[HIGH], v, 0)
           a0 == aggregator(z[LOW], v, 0)
       IN  IF AggregatorFailed(a1.rc)
           THEN /\ z' = [z EXCEPT ![HIGH] = a1.z]
                /\ cor' = [cor EXCEPT !.aggreg_fail = TRUE]
                /\ Return(a1.rc)
           ELSE /\ z' = [z EXCEPT ![HIGH] = a1.z, ![LOW] = a0.z]
                /\ IF AggregatorFailed(a0.rc)
                   THEN cor' = [cor EXCEPT !.aggreg_fail = TRUE] /\ Return(a0.rc)
                   ELSE cor' = cor /\ rc' = a0.rc /\ pc' = "untrusted" /\ ret' = ret
    /\ UNCHANGED <<v, v0, seqlen, unrel, zc, pol, overlap, h, q, rsb, rs, rec, printed>>

\* 2.2.2 one turn of while (extractor (...)), or the end of the corrector
UntrustedSubsequence ==
    /\ pc = "untrusted"
    /\ LET e == extractor(v, seqlen, cor.extractor_ind)
       IN  IF unrel > 0 /\ e.found
           THEN LET st == Subsequence(z, v, rc, e.ss_start_ind, e.ss_stop_ind)
                IN  /\ v' = st.v
                    /\ z' = st.z
                    /\ cor' = [cor EXCEPT !.extractor_ind = e.v_ind,
                                          !.aggreg_fail = @ \/ st.aggreg_fail]
                    /\ rsb' = IF st.res.called THEN st.res ELSE rsb
                    /\ IF st.ret
                       THEN Return(st.rc)
                       ELSE rc' = st.rc /\ pc' = "untrusted" /\ ret' = ret
           ELSE /\ UNCHANGED <<v, z, cor, rsb, rs, rec, printed>>
                /\ IF rc # CRC_0
                   THEN Return(rc)
                   ELSE rc' = rc /\ pc' = "print" /\ ret' = ret
    /\ UNCHANGED <<v0, seqlen, unrel, zc, pol, overlap, h, q, rs, rec, printed>>

\* categorizer_lib.cpp: 4.2 sequence_printer

\* end handling: the two values behind v_length are (0, 0) or (x, CEIL)
PrintLength(vv, v_length) ==
    IF vv[v_length + 1] # 0 /\ vv[v_length + 2] # 0 THEN v_length + 2 ELSE v_length

\* _pd(cat_ind) below 10, _pc(87 + cat_ind) from 'a' on
CategoryChars == <<"0", "1", "2", "3", "4", "5", "6", "7", "8", "9", "a", "b", "c", "d", "e", "f">>

\* if ((cat_ind == 0) && (v[v_ind] < cat_val)) _ps(F("-")); else _ps(F("?"));
UnclassifiedMark(cat_ind, cat_val, v_val) == IF cat_ind = 0 /\ v_val < cat_val THEN "-" ELSE "?"

\* the character for the value v_val after the answer c of the classifier
CategoryMark(c, v_val) ==
    IF c.near THEN CategoryChars[c.cat_ind + 1] ELSE UnclassifiedMark(c.cat_ind, c.cat_val, v_val)

\* the character printed for one value of the polarity with categories zz
Marker(zz, v_val) ==
    IF v_val = 0 THEN " "
    ELSE IF v_val >= zz.separator_barrier THEN "*"
    ELSE CategoryMark(classifier(zz, v_val, C_OPT_3), v_val)

\* for (v_ind= (2-z_ind); v_ind <= v_length; v_ind+= 2)
PrintedLine(zz, vv, z_ind, v_length) ==
    [k \in 1..((v_length + z_ind) \div 2) |-> Marker(zz, vv[2 * k - z_ind])]

\* the HIGH line and the LOW line of the categorized sequence
PrintedLines(zs, vv, v_length) ==
    [p \in {LOW, HIGH} |-> PrintedLine(zs[p], vv, p, PrintLength(vv, v_length))]

\* sequence_printer (z, signal_duration, sequence_length); return (CRC_0)
SequencePrinter ==
    /\ pc = "print"
    /\ printed' = PrintedLines(z, v, seqlen)
    /\ pc' = "done"
    /\ ret' = CRC_0
    /\ UNCHANGED <<v, v0, seqlen, unrel, z, zc, pol, overlap, rc, h, cor, q, rsb, rs, rec>>

----------------------------------------------------------------------------
\* Recorded sequences. A sequence is written as cells <<HIGH, LOW>>; the
\* recorder delivers at least 8 reliable start signals, flags the two or three
\* values around a weak edge, and ends the payload on a LOW.

MaxRungs == 9
MaxStartBin == 3
MaxStrays == 8

Reps(x, n) == [i \in 1..n |-> x]

RECURSIVE Flat(_)
Flat(cells) == IF cells = <<>> THEN <<>> ELSE Head(cells) \o Flat(Tail(cells))

RECURSIVE Concat(_)
Concat(ss) == IF ss = <<>> THEN <<>> ELSE Head(ss) \o Concat(Tail(ss))

\* HIGH values with a LOW of 400 behind each
HighCells(vals) == [i \in 1..Len(vals) |-> <<vals[i], 400>>]

\* four border cells in front and at the back
Framed(front, mid, back) == Flat(Reps(front, 4) \o mid \o Reps(back, 4))

\* signal_duration[0 .. count + 2]: payload, then the two zeros of the end record
TraceOf(flat) ==
    [i \in 0..(Len(flat) + 2) |-> IF i >= 1 /\ i <= Len(flat) THEN flat[i] ELSE 0]

\* a base cluster and rungs of cnt values each, stride apart
Ladder(rungs, stride, cnt) ==
    Framed(<<58, 400>>,
           HighCells(Reps(58, 3) \o Concat([j \in 1..rungs |-> Reps(58 + stride * j, cnt)])),
           <<58, 400>>)

Ladders == {Ladder(k, s, c) : k \in 0..MaxRungs, s \in {48, 700}, c \in 1..3}

\* one value in every second bin from startBin up to the top bin of the first histogram
WideRun(startBin, cnt) ==
    Framed(<<400, 400>>,
           HighCells(Concat([j \in 1..((NB - 1 - startBin) \div 2 + 1) |->
                                Reps(58 + 16 * (startBin + 2 * (j - 1)), cnt)])),
           <<400, 400>>)

WideRuns == {WideRun(b, c) : b \in 0..MaxStartBin, c \in 1..2}

\* a weak edge: two flagged values between reliable ones
WeakEdge == << <<400, 400>>, <<401, 401>>, <<400, 400>>, <<400, 400>> >>

\* two peaks with a valley of three bins between them, from bin 2 on
Peaks(shape, tail) ==
    Framed(<<400, 400>>,
           HighCells(Concat([i \in 1..Len(shape) |-> Reps(58 + 16 * (i + 1), shape[i])]))
               \o tail,
           <<400, 400>>)

PeakShapes ==
    {<<pl, pl, a, b, c, pr, pr>> : pl \in {3, 6}, pr \in {3, 6}, a \in 0..1, b \in 0..1, c \in 0..1}

\* a weak edge and a stray HIGH value behind it
StrayEdge == WeakEdge \o << <<300, 400>>, <<400, 400>> >>

PeakRuns == {Peaks(sh, t) : sh \in PeakShapes, t \in {<<>>, WeakEdge, StrayEdge}}

\* the bin counts of a run of exactly six bins: two modes with a shallow valley,
\* and two modes with a valley deeper than the threshold of the overlap check
BimodalCounts == <<3, 2, 1, 2, 3, 1>>
DipCounts == <<8, 1, 1, 1, 8, 1>>

\* HIGH values that fill the bins 2 .. 7 of the first histogram with these counts
BimodalRuns ==
    {Peaks(sh, t) : sh \in {BimodalCounts, DipCounts}, t \in {<<>>, WeakEdge, StrayEdge}}

\* two HIGH values in every bin of the first histogram, then extra values for bin 0
FullRun(extra) ==
    Framed(<<400, 400>>,
           HighCells(Concat([b \in 1..NB |-> Reps(58 + 16 * (b - 1), FIRST_HITS)])
                     \o Reps(58, extra)),
           <<400, 400>>)

FullRuns == {FullRun(extra) : extra \in 0..2}

\* stray values around a HIGH cluster and a LOW cluster at 400
StrayCells ==
    << <<100, 400>>, <<150, 400>>, <<200, 400>>, <<250, 400>>, <<300, 400>>, <<500, 400>>,
       <<580, 400>>, <<680, 400>>, <<9000, 400>>, <<30, 400>>, <<400, 372>>, <<450, 372>>,
       <<450, 350>>, <<400, 30>>, <<400, 9000>>, <<340, 400>>, <<340, 400>>, <<340, 400>>,
       <<340, 400>> >>

Strays(from, to, front) ==
    Framed(front, Reps(<<400, 400>>, 4) \o SubSeq(StrayCells, from, to), <<400, 400>>)

StrayRuns ==
    UNION {{Strays(f, t, b) : t \in {tt \in 1..Len(StrayCells) : tt >= f /\ tt < f + MaxStrays},
                             b \in {<<400, 400>>, <<340, 400>>}} :
           f \in 1..Len(StrayCells)}

\* flagged values of an untrusted subsequence
Flagged == {401, 151, 9001}

\* an untrusted subsequence: two or three flagged values, starting on a HIGH or on a LOW
Window(fv, onLow) ==
    LET pre == IF onLow THEN <<400, 400, 400>> ELSE <<400, 400>>
        n == Len(pre) + Len(fv)
    IN  pre \o fv \o (IF n % 2 = 0 THEN <<400, 400>> ELSE <<400>>)

Windows ==
    {<<>>} \cup {Window(fv, b) : fv \in [1..2 -> Flagged] \cup [1..3 -> Flagged], b \in BOOLEAN}

\* the payload ends with reliable values, or with the flagged values of a weak edge
Endings == {<<400, 400>>, <<400, 401>>, <<401, 401>>}

UntrustedSeq(strays, w, ending) ==
    Flat(Reps(<<400, 400>>, 4) \o SubSeq(StrayCells, 1, strays) \o Reps(<<400, 400>>, 3))
        \o w \o Flat(Reps(<<400, 400>>, 4) \o <<ending>>)

UntrustedRuns ==
    {UntrustedSeq(n, w, e) : n \in {0, MaxStrays}, w \in Windows, e \in Endings}

\* flagged values of a spike or a drop
SpikeValues == {51, 301, 377, 501, 5001, 30001}

\* three flagged values behind the reliable value front, starting on a HIGH or on a LOW
SpikeWindow(front, fv, onLow) ==
    (IF onLow THEN <<400, 400, front>> ELSE <<400, front>>) \o fv
        \o (IF onLow THEN <<400, 400>> ELSE <<400>>)

\* clusters at 400 and at 1200 in both polarities, and one spike window
SpikeSeq(front, fv, onLow) ==
    Flat(Reps(<<400, 400>>, 4) \o Reps(<<1200, 1200>>, 3) \o Reps(<<400, 400>>, 3))
        \o SpikeWindow(front, fv, onLow) \o Flat(Reps(<<400, 400>>, 5))

SpikeRuns ==
    {SpikeSeq(f, fv, b) : f \in {400, 30}, fv \in [1..3 -> SpikeValues], b \in BOOLEAN}

\* HIGH top values, two or three to an aggregation
TopValues == <<9000, 9010, 13000, 13700, 14400, 19000, 19010, 28000, 29500, 31000,
               41000, 41010, 52000, 52010, 64000, 64010>>

\* n top values in front of a spike window of three flagged values fv
TopSeq(n, fv) ==
    Flat(Reps(<<400, 400>>, 4) \o HighCells(SubSeq(TopValues, 1, n)) \o Reps(<<400, 400>>, 3))
        \o SpikeWindow(400, <<fv, fv, fv>>, FALSE) \o Flat(Reps(<<400, 400>>, 5))

TopRuns == {TopSeq(n, fv) : n \in {2, NO - 1, NO}, fv \in {401, 3001}}

\* a stray HIGH value with a stray LOW value right behind it
AdjacentStrays(a, b) ==
    Framed(<<400, 400>>, Reps(<<400, 400>>, 4) \o << <<a, b>> >> \o Reps(<<400, 400>>, 2),
           <<400, 400>>)

AdjacentRuns == {AdjacentStrays(a, b) : a \in {350, 450}, b \in {250, 700, 9000}}

\* recordings that end right behind the warm-up: 8 values after a normal end,
\* and recordings that are shorter than the two borders
ShortRuns == {Reps(400, n) : n \in {8, 10, 16}}

Recordings ==
    Ladders \cup WideRuns \cup PeakRuns \cup StrayRuns \cup UntrustedRuns \cup SpikeRuns
        \cup TopRuns \cup AdjacentRuns \cup BimodalRuns
        \cup FullRuns \cup ShortRuns

\* number of flagged values, as rs.unreliable_count counts them
UnreliableCount(flat) == Cardinality({i \in 1..Len(flat) : LSB(flat[i]) = 1})

Init ==
    /\ \E flat \in Recordings :
          /\ v = TraceOf(flat)
          /\ v0 = TraceOf(flat)
          /\ seqlen = Len(flat)
          /\ unrel = UnreliableCount(flat)
    /\ z = [p \in {LOW, HIGH} |-> NoCategories]
    /\ zc = [p \in {LOW, HIGH} |-> NoCategories]
    /\ pc = "categorizer"
    /\ pol = HIGH
    /\ overlap = FALSE
    /\ rc = CRC_0
    /\ ret = -1
    /\ h = NoHistogram
    /\ cor = NoCorrection
    /\ q = NoQuery
    /\ rsb = NoResorb
    /\ rs = NoSignals
    /\ rec = NoRecorder
    /\ printed = <<>>

Next ==
    \/ Categorizer
    \/ Clusterer
    \/ BinFilling
    \/ BinClustering
    \/ OutlierSieving
    \/ NextHistogram
    \/ PostClusteringStep
    \/ OutlierCorrection
    \/ ResistantAggregation
    \/ UntrustedSubsequence
    \/ SequencePrinter

Spec == Init /\ [][Next]_vars

\* the positions of the program
Positions ==
    {"categorizer", "clusterer", "fill", "cluster", "sieve", "next", "post",
     "corrector", "aggregate", "untrusted", "print", "done"}

\* the program moves on to another position
Proceeds == pc # "done" /\ \E x \in Positions : pc' = x

\* the processor keeps executing the running call: as long as categorizer has
\* not returned, the program does not stay at one position forever
FairSpec == Spec /\ WF_pc(Proceeds)

----------------------------------------------------------------------------
\* The classifier on its own: a category set as clusterer and aggregator leave
\* it (clusters ascending and disjoint, each center inside its range), queried
\* with any value and any option.

MaxQuery == 130

\* clusters <<floor, center, ceil>>; the second and the third are adjacent
ClusterCells == << <<82, 90, 98>>, <<386, 394, 402>>, <<402, 410, 418>>, <<802, 818, 834>> >>

\* the cells of s picked by the index set keep, in ascending order
RECURSIVE Pick(_, _, _)
Pick(s, keep, i) ==
    IF i > Len(s) THEN <<>>
    ELSE (IF i \in keep THEN <<s[i]>> ELSE <<>>) \o Pick(s, keep, i + 1)

\* aggregation centers: level 1 in front, level 2 behind
AggregCells == {<<>>, <<362>>, <<362, 600>>, <<430>>, <<1000, 100>>, <<426, 378, 840>>}

CategorySet(cells, centers) ==
    [NoCategories EXCEPT
        !.cluster_size = Len(cells),
        !.cluster_count = [i \in 1..Len(cells) |-> MIN_SIZE],
        !.cluster_floor = [i \in 1..Len(cells) |-> cells[i][1]],
        !.cluster_center = [i \in 1..Len(cells) |-> cells[i][2]],
        !.cluster_ceil = [i \in 1..Len(cells) |-> cells[i][3]],
        !.aggreg_size_2 = Len(centers),
        !.aggreg_center = centers]

CategorySets ==
    {CategorySet(Pick(ClusterCells, keep, 1), a) :
        keep \in (SUBSET (1..Len(ClusterCells))) \ {{}}, a \in AggregCells}

\* query values: a grid through all cluster borders, and the values right below a ceil
Queries == {2 + 8 * i : i \in 6..MaxQuery} \cup {97, 401, 417, 833}

InitClass ==
    /\ \E t \in CategorySets : z = [p \in {LOW, HIGH} |-> IF p = HIGH THEN t ELSE NoCategories]
    /\ zc = [p \in {LOW, HIGH} |-> NoCategories]
    /\ v = TraceOf(<<>>)
    /\ v0 = TraceOf(<<>>)
    /\ seqlen = 0
    /\ unrel = 0
    /\ pc = "classify"
    /\ pol = HIGH
    /\ overlap = FALSE
    /\ rc = CRC_0
    /\ ret = -1
    /\ h = NoHistogram
    /\ cor = NoCorrection
    /\ q = NoQuery
    /\ rsb = NoResorb
    /\ rs = NoSignals
    /\ rec = NoRecorder
    /\ printed = <<>>

\* the answer c of the classifier to the query
Answered(v_val, option, c) ==
    q' = [v_val |-> v_val, option |-> option, asked |-> TRUE,
          near |-> c.near, cat_ind |-> c.cat_ind, cat_val |-> c.cat_val]

\* classifier (z, v_val, cat_ind, cat_val, option)
Classify ==
    /\ pc = "classify"
    /\ \E v_val \in Queries, option \in {C_OPT_2, C_OPT_3, C_OPT_4} :
          Answered(v_val, option, classifier(z[pol], v_val, option))
    /\ pc' = "classified"
    /\ UNCHANGED <<v, v0, seqlen, unrel, z, zc, pol, overlap, rc, ret, h, cor, rsb, rs, rec, printed>>

NextClass == Classify

SpecClass == InitClass /\ [][NextClass]_vars

----------------------------------------------------------------------------
\* Properties of the clusterer

\* clusterer has returned OK for polarity p: categorizer went on to the LOW
\* call, respectively to the corrector or the printer
ReturnedOk(p) ==
    IF p = HIGH THEN pol = LOW
    ELSE pc \in {"corrector", "aggregate", "untrusted", "print"} \/ (pc = "done" /\ ret = CRC_0)

\* C1: after clusterer returns OK for a polarity, its clusters are ascending and
\* disjoint: cluster_floor[i] < cluster_ceil[i] <= cluster_floor[j] for i < j
C1_ClustersAscendingDisjoint ==
    \A p \in {LOW, HIGH} :
        ReturnedOk(p) =>
            \A i, j \in 1..zc[p].cluster_size :
                i < j => /\ zc[p].cluster_floor[i] < zc[p].cluster_ceil[i]
                         /\ zc[p].cluster_ceil[i] <= zc[p].cluster_floor[j]

\* a run truncated by the overlap heuristic, with the next cluster adjacent to it
C1_Witness ==
    /\ ReturnedOk(HIGH)
    /\ overlap
    /\ \E i \in 1..(zc[HIGH].cluster_size - 1) :
          zc[HIGH].cluster_ceil[i] = zc[HIGH].cluster_floor[i + 1]

\* C2: TOO_MANY_CLUSTERS is returned only when a ninth cluster would have to be
\* emitted, that is when more than NC clusters have been found
C2_NinthClusterOnly ==
    (pc = "done" /\ ret = CRC_3) => h.c_ind > NC

\* C3: each clusterer call terminates: the histogram loop ends with
\* h_next_floor == CEIL or with an error return
C3_ClustererTerminates ==
    (pc = "clusterer") ~> (pc \in {"post", "done"})

\* C4: all tables stay within their capacities, and at every return of
\* categorizer cluster_size <= NC, aggreg_size_1 <= aggreg_size_2 <= NA, outlier_size <= NO
C4_TablesWithinCapacity ==
    \A p \in {LOW, HIGH} :
        /\ Len(z[p].cluster_count) <= NC
        /\ Len(z[p].cluster_center) <= NC
        /\ Len(z[p].cluster_floor) <= NC
        /\ Len(z[p].cluster_ceil) <= NC
        /\ Len(z[p].aggreg_center) <= NA
        /\ Len(z[p].outlier_ind) <= NO
        /\ pc = "done" => /\ z[p].cluster_size <= NC
                          /\ z[p].aggreg_size_1 <= z[p].aggreg_size_2
                          /\ z[p].aggreg_size_2 <= NA
                          /\ z[p].outlier_size <= NO

\* a return of categorizer with a full outlier list
C4_Witness ==
    /\ pc = "done"
    /\ \E p \in {LOW, HIGH} : z[p].outlier_size = NO /\ Len(z[p].outlier_ind) = NO

\* the indices of polarity p between the first and the last of the payload
IndicesOf(p) == {i \in StartInd(p)..StopInd(seqlen, p) : LSB(i) = p}

\* C9: after clusterer returns OK for a polarity, every trusted value of that
\* polarity with index > 1 and value <= separator_barrier is classifiable under
\* C_OPT_3 or has its index in outlier_ind
C9_NoValueDropped ==
    \A p \in {LOW, HIGH} :
        ReturnedOk(p) =>
            \A i \in IndicesOf(p) :
                (i > 1 /\ ~Untrusted(v0, i) /\ v0[i] <= zc[p].separator_barrier) =>
                    \/ classifier(zc[p], v0[i], C_OPT_3).near
                    \/ \E k \in 1..zc[p].outlier_size : zc[p].outlier_ind[k] = i

----------------------------------------------------------------------------
\* Properties of categorizer and of the corrector

\* C10: with the overlap flag raised the corrector is not run: v is the input,
\* and the outlier lists and aggreg_size_2 = aggreg_size_1 are as the clusterer left them
C10_OverlapSkipsCorrector ==
    overlap =>
        /\ pc \notin {"corrector", "aggregate", "untrusted"}
        /\ v = v0
        /\ pc \in {"print", "done"} =>
              \A p \in {LOW, HIGH} :
                  /\ z[p].outlier_ind = zc[p].outlier_ind
                  /\ z[p].outlier_size = zc[p].outlier_size
                  /\ z[p].aggreg_size_2 = zc[p].aggreg_size_2
                  /\ z[p].aggreg_center = zc[p].aggreg_center
                  /\ (ret = CRC_0 \/ pc = "print") => z[p].aggreg_size_2 = z[p].aggreg_size_1

\* categorizer returned OK with the flag raised, on a trace with flagged values
\* and with outliers the corrector would have worked on
C10_Witness ==
    /\ pc = "done"
    /\ overlap
    /\ ret = CRC_0
    /\ unrel > 0
    /\ z[HIGH].outlier_size > 0

\* C5: after the corrector has run to completion with OK, no value of the
\* payload carries the unreliable LSB unless its index is in an outlier list or
\* its value is above the separator barrier of its polarity
C5_NoFlagLeft ==
    (pc = "done" /\ ret = CRC_0 /\ ~overlap /\ unrel > 0) =>
        \A i \in 1..seqlen :
            LSB(v[i]) = 1 =>
                \/ \E p \in {LOW, HIGH} : \E k \in 1..z[p].outlier_size : z[p].outlier_ind[k] = i
                \/ AboveBarrier(z, v, i)

\* C6: an aggregator call of the corrector that fails makes categorizer return
\* the error at once: no further window is processed and the return code is not OK
C6_AggregatorErrorReturned ==
    cor.aggreg_fail => (pc = "done" /\ ret # CRC_0)

----------------------------------------------------------------------------
\* Properties of the classifier

Dist(a, b) == IF a > b THEN a - b ELSE b - a

ClusterCenters(zz) == {zz.cluster_center[i] : i \in 1..zz.cluster_size}

AllCenters(zz) == ClusterCenters(zz) \cup {zz.aggreg_center[a] : a \in 1..zz.aggreg_size_2}

\* the query value lies in no cluster range
Outside(zz, v_val) ==
    \A i \in 1..zz.cluster_size : ~(zz.cluster_floor[i] <= v_val /\ v_val < zz.cluster_ceil[i])

\* cat_val is the center of the category cat_ind
CenterOf(zz, cat_ind) ==
    IF cat_ind < zz.cluster_size THEN zz.cluster_center[cat_ind + 1]
    ELSE zz.aggreg_center[cat_ind - zz.cluster_size + 1]

\* C7, as the specification states it: for a value outside all cluster ranges
\* the category returned is a nearest one over all cluster and aggregation centers
C7_AlwaysNearest ==
    (q.asked /\ Outside(z[pol], q.v_val)) =>
        \A c \in AllCenters(z[pol]) : Dist(q.v_val, q.cat_val) <= Dist(q.v_val, c)

\* C7, amended: the category returned is a nearest one over all centers, unless
\* the nearest cluster center is within the tolerance of the option; then that
\* cluster is returned with near = TRUE and the aggregations are not looked at
C7_NearestUnlessClusterNear ==
    (q.asked /\ Outside(z[pol], q.v_val)) =>
        /\ q.cat_val = CenterOf(z[pol], q.cat_ind)
        /\ \/ \A c \in AllCenters(z[pol]) : Dist(q.v_val, q.cat_val) <= Dist(q.v_val, c)
           \/ /\ q.near
              /\ q.cat_ind < z[pol].cluster_size
              /\ NearEnough(Dist(q.v_val, q.cat_val), q.cat_val, q.option)
              /\ \A c \in ClusterCenters(z[pol]) : Dist(q.v_val, q.cat_val) <= Dist(q.v_val, c)

\* an aggregation is returned for a value outside all cluster ranges
C7_Witness ==
    /\ q.asked
    /\ Outside(z[pol], q.v_val)
    /\ q.cat_ind >= z[pol].cluster_size
    /\ \E c \in ClusterCenters(z[pol]) : Dist(q.v_val, c) > Dist(q.v_val, q.cat_val)

\* C8: a value inside [cluster_floor[k], cluster_ceil[k]) is classified as
\* cluster k with cat_val = cluster_center[k] and near = TRUE, for every option
\* and whatever aggregations are present
C8_InsideCluster ==
    q.asked =>
        \A k \in 1..z[pol].cluster_size :
            (z[pol].cluster_floor[k] <= q.v_val /\ q.v_val < z[pol].cluster_ceil[k]) =>
                /\ q.near
                /\ q.cat_ind = k - 1
                /\ q.cat_val = z[pol].cluster_center[k]

\* a value inside a cluster range, with an aggregation center nearer to the
\* value than the center of the cluster
C8_Witness ==
    /\ q.asked
    /\ \E k \in 1..z[pol].cluster_size :
          /\ z[pol].cluster_floor[k] <= q.v_val
          /\ q.v_val < z[pol].cluster_ceil[k]
          /\ q.cat_ind = k - 1
          /\ \E a \in 1..z[pol].aggreg_size_2 :
                Dist(q.v_val, z[pol].aggreg_center[a]) < Dist(q.v_val, q.cat_val)

----------------------------------------------------------------------------
\* Properties of the resorber

\* the category of the virtual triple of the recorded resorber call
TripleCategory(r) ==
    classifier(r.z_in, U16(TripleSum(r.v_in, r.ss_cat, r.ss_start_ind)),
               IF r.rel_delta_in > 100 THEN C_OPT_3 ELSE C_OPT_4)

\* the window v[s .. s + 4] of the array a
WindowOf(a, s) == <<a[s], a[s + 1], a[s + 2], a[s + 3], a[s + 4]>>

\* the window is (ss_cat[0], c, 0, 0, ss_cat[4]) with c the center of category c of z_in
ResorbedTo(r, c) ==
    /\ c.near
    /\ c.cat_val \in AllCenters(r.z_in)
    /\ WindowOf(r.v_out, r.ss_start_ind) = <<r.ss_cat[1], c.cat_val, 0, 0, r.ss_cat[5]>>

\* C11: whenever resorber returns true for the window starting at s, on return
\* v[s .. s + 4] = (ss_cat[0], c, 0, 0, ss_cat[4]) with c the center of the
\* category of the virtual triple, and the rel_delta handed back is not above
\* the best-fit rel_delta that was passed in.
C11_ResorptionInvariant ==
    rsb.called /\ rsb.ok =>
        /\ ResorbedTo(rsb, TripleCategory(rsb))
        /\ rsb.rel_delta_out <= rsb.rel_delta_in

\* a window is resorbed with a residual below the best-fit residual
C11_Witness ==
    /\ rsb.called /\ rsb.ok
    /\ rsb.rel_delta_out < rsb.rel_delta_in
    /\ WindowOf(rsb.v_out, rsb.ss_start_ind) # WindowOf(rsb.v_in, rsb.ss_start_ind)

\* C18: resorber accepts (returns true and rewrites the window) only if its
\* residual rel_delta is strictly smaller than the best-fit residual passed in;
\* with equal residuals it refuses.
C18_AcceptsOnlyStrictlyBetter ==
    rsb.called /\ rsb.ok => rsb.rel_delta_out < rsb.rel_delta_in

\* C19: whenever resorber returns false, as a refusal or with an error code,
\* it has modified no element of v and not the outlier list, and the rel_delta
\* it hands back is the best-fit rel_delta passed in.
C19_FalseLeavesAllUnchanged ==
    rsb.called /\ ~rsb.ok =>
        /\ rsb.v_out = rsb.v_in
        /\ rsb.z_out.outlier_ind = rsb.z_in.outlier_ind
        /\ rsb.rel_delta_out = rsb.rel_delta_in

\* C20: for every 5-element window the corrector passes to resorber the virtual
\* triple t lies in 0 .. CEIL, so that converting it to 16 bits keeps its value
\* and the code RESORBER_TRIPLE_SUM_ERROR is never returned.
C20_TripleWithinRange ==
    /\ rsb.called /\ rsb.ss_stop_ind - rsb.ss_start_ind = 4 =>
          /\ TripleSum(rsb.v_in, rsb.ss_cat, rsb.ss_start_ind) >= 0
          /\ TripleSum(rsb.v_in, rsb.ss_cat, rsb.ss_start_ind) <= CEIL
          /\ U16(TripleSum(rsb.v_in, rsb.ss_cat, rsb.ss_start_ind))
                 = TripleSum(rsb.v_in, rsb.ss_cat, rsb.ss_start_ind)
    /\ ret # CRC_18

----------------------------------------------------------------------------
\* Determinism of categorizer

\* contents the caller may have left in separator_barrier, which clusterer does not reset
PriorBarriers == {0, 4020, CEIL}

\* v and the merged outlier list after the scan, for one content of the word
\* in front of the uint16 buffer
ScanOutcome(stray) ==
    LET m  == merge(z[HIGH].outlier_ind, z[LOW].outlier_ind)
        st == OutlierScan(z, [v |-> v, m_outlier_ind |-> m, m_ind |-> Len(m) - 1,
                              underflow |-> FALSE, before_read |-> FALSE], 1, seqlen, stray)
    IN  [v |-> st.v, m_outlier_ind |-> st.m_outlier_ind, underflow |-> st.underflow]

\* the outcomes a and b of a scan agree on v and on the outlier list
SameOutcome(a, b) == a.v = b.v /\ a.m_outlier_ind = b.m_outlier_ind

\* the results a and b of the post-clustering agree on the return code and, if
\* the category set was completed, on the category set
SameCategories(a, b) == a.rc = b.rc /\ (a.rc = CRC_0 => a.z = b.z)

\* the corrector is about to scan a non-empty merged outlier list
ScanPending ==
    /\ pc = "corrector"
    /\ z[HIGH].cluster_size # 0
    /\ z[HIGH].outlier_size + z[LOW].outlier_size \in 1..NM

----------------------------------------------------------------------------
\* Properties of the emitted clusters

\* the indices the bin filling scans for polarity p: the payload without its borders
InteriorOf(p) ==
    {i \in (StartInd(p) + BORDER_WIDTH)..(StopInd(seqlen, p) - BORDER_WIDTH) : LSB(i) = p}

\* the trusted interior samples of polarity p with lo <= v < hi
TrustedWithin(p, lo, hi) ==
    {i \in InteriorOf(p) : ~Untrusted(v0, i) /\ v0[i] >= lo /\ v0[i] < hi}

\* cluster k of the category set zz of polarity p encloses cluster_count[k] >= MIN_SIZE samples
Encloses(zz, p, k) ==
    /\ Cardinality(TrustedWithin(p, zz.cluster_floor[k], zz.cluster_ceil[k])) >= MIN_SIZE
    /\ Cardinality(TrustedWithin(p, zz.cluster_floor[k], zz.cluster_ceil[k])) = zz.cluster_count[k]

----------------------------------------------------------------------------
\* Properties of the aggregator

\* aggregator (z, v, 0, rc) called again on what the first call a left
AggregatedAgain(a, vv) == aggregator(a.z, vv, 0)

\* the calls a and b leave the same aggreg_size_2, the same centers and the same return code
SameAggregations(a, b) ==
    /\ a.rc = b.rc
    /\ a.z.aggreg_size_2 = b.z.aggreg_size_2
    /\ SubSeq(a.z.aggreg_center, 1, a.z.aggreg_size_2)
           = SubSeq(b.z.aggreg_center, 1, b.z.aggreg_size_2)

\* the second of two calls in succession repeats the result a of the first
Idempotent(a, vv) == SameAggregations(a, AggregatedAgain(a, vv))

\* C14: calling aggregator(z, v, 0) twice in succession leaves, after the
\* second call, the same aggreg_size_2, the same aggreg_center[0..aggreg_size_2)
\* and the same return code as after the first call.
C14_AggregatorIdempotent ==
    \A p \in {LOW, HIGH} : Idempotent(aggregator(z[p], v, 0), v)

\* the first call reorders the outliers and leaves at least two aggregations
C14_Witness ==
    \E p \in {LOW, HIGH} :
        /\ z[p].outlier_size >= 3
        /\ index_sort(v, z[p].outlier_ind) # z[p].outlier_ind
        /\ aggregator(z[p], v, 0).z.aggreg_size_2 >= 2

----------------------------------------------------------------------------
\* Properties of the outlier correction

\* the outlier indices the scan kept in the merged list
KeptOutliers == {cor.m_outlier_ind[k] : k \in 1..Len(cor.m_outlier_ind)} \ {0}

\* C17: when the merged outlier pass of the corrector ends, every outlier index
\* kept in the list (top-outlier or resistant) still holds its original value
\* in v; the correction of an adjacent lower-index outlier does not overwrite it.
C17_KeptOutliersUntouched ==
    pc = "aggregate" => \A i \in KeptOutliers : v[i] = v0[i]

----------------------------------------------------------------------------
\* recorder.cpp: recorder (rp, rs), one step per call of loop_while_high or
\* loop_while_low; the radio delivers any of the poll results below.

\* strength of the start trigger
StartStrengths == {17, 20, 26, 28}

\* loop_while_high: <<return code, duration_high, strength_low>>
HighPolls == {<<RRC_1, 803, 10>>, <<RRC_1, 2402, 17>>, <<RRC_3, 65000, 10>>, <<RRC_4, 401, 17>>}

\* loop_while_low: <<return code, duration_low, strength_high>>
LowPolls == {<<RRC_1, 801, 20>>, <<RRC_1, 139999, 26>>, <<RRC_0, 130000, 0>>, <<RRC_2, 401, 0>>}

\* what the caller's buffers hold from the reception before
StaleSignals ==
    {NoSignals,
     [NoSignals EXCEPT !.duration = [i \in 1..(MaxLength + 3) |-> 65535],
                       !.count = 12, !.unreliable_count = 5]}

\* the variables of the categorizer
catvars == <<v, v0, seqlen, unrel, z, zc, pol, overlap, rc, ret, h, cor, q, rsb, printed>>

\* (duration >> 1) & MSB, stored in an unsigned int
MarkReliable(duration) == MSB(U16(Shr(duration, 1)))

\* (duration >> 1) | LSB, stored in an unsigned int
MarkUnreliable(duration) == MSB(U16(Shr(duration, 1))) + 1

\* rs.duration[ind]= val
Stored(s, ind, val) == [s EXCEPT !.duration[ind] = val]

\* the edge in front of the HIGH and the edge after it
ReliableHigh(strength_high, prev_strength_low, strength_low) ==
    /\ strength_high >= prev_strength_low + DELTA_STRENGTH
    /\ strength_high >= strength_low + DELTA_STRENGTH

\* the edge in front of the LOW only
ReliableLowFront(curr_strength_high, strength_low, strength_high) ==
    curr_strength_high >= strength_low + DELTA_STRENGTH

\* the edge in front of the LOW and the edge after it
ReliableLow(curr_strength_high, strength_low, strength_high) ==
    /\ curr_strength_high >= strength_low + DELTA_STRENGTH
    /\ strength_high >= strength_low + DELTA_STRENGTH

\* (curr_strength_high > strength_upper_lim) || (curr_strength_high < strength_lower_lim)
Collision(r) ==
    r.curr_strength_high > r.strength_upper_lim \/ r.curr_strength_high < r.strength_lower_lim

\* an unreliable signal starts a run after less than two reliable ones
TooFewReliableTwo(r) == r.cons_unreliable_count = 0 /\ r.cons_reliable_count < 2

\* an unreliable signal starts a run after less than three reliable ones
TooFewReliable(r) == r.cons_unreliable_count = 0 /\ r.cons_reliable_count < 3

\* if (cons_reliable_count < 3) cons_reliable_count++; cons_unreliable_count= 0;
CountReliable(r) ==
    [r EXCEPT !.cons_reliable_count = IF @ < 3 THEN @ + 1 ELSE @,
              !.cons_unreliable_count = 0]

\* cons_reliable_count= 0; ++cons_unreliable_count
CountUnreliable(r) ==
    [r EXCEPT !.cons_reliable_count = 0, !.cons_unreliable_count = @ + 1]

\* an outcome of a step: the signals, the locals, the next position
Goes(s, r, position) == [rs |-> s, rec |-> r, pc |-> position]

\* EOR: the end record (0, 0) behind the last reliable LOW, rs.count--, return
EOR(s, r, code) ==
    Goes([s EXCEPT !.duration = [s.duration EXCEPT ![s.count] = 0, ![s.count + 1] = 0],
                   !.count = s.count - 1],
         [r EXCEPT !.ret_code = code], "returned")

\* 1.6.1 normal end: the pause is the end record, r.ind is already past it
NormalEnd(s, r, duration_low) ==
    Goes([Stored(s, r.ind - 1, MarkReliable(duration_low)) EXCEPT !.count = (r.ind - 2) - 1],
         [r EXCEPT !.ret_code = RRC_0], "returned")

\* 1.4 prepare reception of following signals
Prepared(s, r) ==
    Goes([s EXCEPT !.ref_strength_high = Shr(s.strength[5] + s.strength[7], 1),
                   !.ref_strength_low = Shr(s.strength[6] + s.strength[8], 1)],
         [r EXCEPT !.cons_collision_count = 0, !.cons_unreliable_count = 0,
                   !.cons_reliable_count = WARM_UP,
                   !.strength_upper_lim = U8(Shr(s.strength[5] + s.strength[7], 1) + DELTA_STRENGTH),
                   !.strength_lower_lim = U8(Shr(s.strength[5] + s.strength[7], 1) - DELTA_STRENGTH)],
         "record_high")

\* while (ind <= WARM_UP)
WarmUpLoop(s, r) == IF r.ind <= WARM_UP THEN Goes(s, r, "warm_high") ELSE Prepared(s, r)

\* while (ind < rp.max_length); behind the loop: ret_code= RRC_1, rs.count= ind
RecordLoop(s, r) ==
    IF r.ind < MaxLength THEN Goes(s, r, "record_high")
    ELSE EOR([s EXCEPT !.count = r.ind], r, RRC_1)

\* 1.1, 1.2: the start trigger has arrived
Started(s, strength_high) ==
    IF strength_high < RADIO_SENSITIVITY
    THEN EOR(s, rec, RRC_5)
    ELSE IF strength_high > RADIO_SENSITIVITY + Shr(RADIO_SENSITIVITY, 1)
    THEN EOR(s, rec, RRC_6)
    ELSE Goes([s EXCEPT !.ref_strength_high = 0],
              [rec EXCEPT !.strength_high = strength_high, !.strength_low = 0, !.ind = 1],
              "warm_high")

\* 1.3, odd indices: the HIGH at r.ind - 1 has ended
WarmedHigh(s, r, ret_code, duration_high) ==
    IF ret_code # RRC_1
    THEN EOR(Stored(s, r.ind - 1, MarkUnreliable(duration_high)), r, ret_code)
    ELSE IF ReliableHigh(r.curr_strength_high, r.prev_strength_low, r.strength_low)
    THEN Goes(Stored(s, r.ind - 1, MarkReliable(duration_high)), r, "warm_low")
    ELSE EOR(Stored(s, r.ind - 1, MarkUnreliable(duration_high)), r, RRC_8)

\* 1.3, even indices: the LOW at r.ind - 1 has ended
WarmedLow(s, r, ret_code, duration_low) ==
    IF ret_code = RRC_0
    THEN EOR([Stored(s, r.ind - 1, MarkReliable(duration_low)) EXCEPT !.count = r.ind - 2],
             r, RRC_7)
    ELSE IF ret_code # RRC_1
    THEN EOR([Stored(s, r.ind - 1, MarkUnreliable(duration_low)) EXCEPT !.count = r.ind - 2],
             r, ret_code)
    ELSE IF ReliableLow(r.curr_strength_high, r.strength_low, r.strength_high)
    THEN WarmUpLoop(Stored(s, r.ind - 1, MarkReliable(duration_low)), r)
    ELSE EOR(Stored(s, r.ind - 1, MarkUnreliable(duration_low)), r, RRC_9)

\* the HIGH was reliable: collision detection
CollisionChecked(s, r) ==
    IF ~Collision(r)
    THEN Goes(s, [r EXCEPT !.cons_collision_count = 0], "record_low")
    ELSE IF r.cons_collision_count + 1 > 3
    THEN EOR(s, [r EXCEPT !.cons_collision_count = @ + 1], RRC_14)
    ELSE Goes(s, [r EXCEPT !.cons_collision_count = @ + 1], "record_low")

\* the signal was unreliable: rs.unreliable_count++, then the two run checks
UnreliableChecked(s, r, few, many, next) ==
    IF TooFewReliable(r)
    THEN EOR([s EXCEPT !.unreliable_count = @ + 1], r, few)
    ELSE IF r.cons_unreliable_count + 1 > 3
    THEN EOR([s EXCEPT !.unreliable_count = @ + 1], CountUnreliable(r), many)
    ELSE IF next = "record_low"
    THEN Goes([s EXCEPT !.unreliable_count = @ + 1], CountUnreliable(r), next)
    ELSE RecordLoop([s EXCEPT !.unreliable_count = @ + 1], CountUnreliable(r))

\* 1.5, odd indices: the HIGH at r.ind - 1 has ended
RecordedHigh(s, r, ret_code, duration_high) ==
    IF ret_code # RRC_1
    THEN EOR(Stored(s, r.ind - 1, MarkUnreliable(duration_high)), r, ret_code)
    ELSE IF ReliableHigh(r.curr_strength_high, r.prev_strength_low, r.strength_low)
    THEN CollisionChecked(Stored(s, r.ind - 1, MarkReliable(duration_high)), CountReliable(r))
    ELSE UnreliableChecked(Stored(s, r.ind - 1, MarkUnreliable(duration_high)), r,
                           RRC_10, RRC_12, "record_low")

\* 1.5, even indices: the LOW at r.ind - 1 has ended
RecordedLow(s, r, ret_code, duration_low) ==
    IF ret_code = RRC_0
    THEN NormalEnd(s, r, duration_low)
    ELSE IF ret_code # RRC_1
    THEN EOR(Stored(s, r.ind - 1, MarkUnreliable(duration_low)), r, ret_code)
    ELSE IF ReliableLow(r.curr_strength_high, r.strength_low, r.strength_high)
    THEN RecordLoop([Stored(s, r.ind - 1, MarkReliable(duration_low)) EXCEPT !.count = r.ind],
                    CountReliable(r))
    ELSE UnreliableChecked(Stored(s, r.ind - 1, MarkUnreliable(duration_low)), r,
                           RRC_11, RRC_13, "record_high")

\* the locals after loop_while_high has returned and ind++
AfterHigh(strength_low) ==
    [rec EXCEPT !.curr_strength_high = rec.strength_high,
                !.prev_strength_low = rec.strength_low,
                !.strength_low = strength_low, !.ind = @ + 1]

\* the locals after loop_while_low has returned and ind++
AfterLow(strength_high) == [rec EXCEPT !.strength_high = strength_high, !.ind = @ + 1]

Outcome(o) ==
    /\ rs' = o.rs
    /\ rec' = o.rec
    /\ pc' = o.pc
    /\ UNCHANGED catvars

\* 1.1, 1.2 start receiver, detect begin of reception
RecorderStart ==
    /\ pc = "recorder"
    /\ \E strength_high \in StartStrengths :
          Outcome(Started([rs EXCEPT !.count = 1, !.unreliable_count = 0,
                                     !.ref_strength_high = strength_high,
                                     !.ref_strength_low = 0],
                          strength_high))

\* 1.3 process warm-up signals, HIGH
WarmUpHigh ==
    /\ pc = "warm_high"
    /\ \E poll \in HighPolls :
          Outcome(WarmedHigh([rs EXCEPT !.strength[rec.ind] = rec.strength_high],
                             AfterHigh(poll[3]), poll[1], poll[2]))

\* 1.3 process warm-up signals, LOW
WarmUpLow ==
    /\ pc = "warm_low"
    /\ \E poll \in LowPolls :
          Outcome(WarmedLow([rs EXCEPT !.strength[rec.ind] = rec.strength_low],
                            AfterLow(poll[3]), poll[1], poll[2]))

\* 1.5 record following signals, HIGH
RecordHigh ==
    /\ pc = "record_high"
    /\ \E poll \in HighPolls :
          Outcome(RecordedHigh(rs, AfterHigh(poll[3]), poll[1], poll[2]))

\* 1.5 record following signals, LOW
RecordLow ==
    /\ pc = "record_low"
    /\ \E poll \in LowPolls :
          Outcome(RecordedLow(rs, AfterLow(poll[3]), poll[1], poll[2]))

InitRec ==
    /\ rs \in StaleSignals
    /\ rec = NoRecorder
    /\ printed = <<>>
    /\ pc = "recorder"
    /\ v = TraceOf(<<>>)
    /\ v0 = TraceOf(<<>>)
    /\ seqlen = 0
    /\ unrel = 0
    /\ z = [p \in {LOW, HIGH} |-> NoCategories]
    /\ zc = [p \in {LOW, HIGH} |-> NoCategories]
    /\ pol = HIGH
    /\ overlap = FALSE
    /\ rc = CRC_0
    /\ ret = -1
    /\ h = NoHistogram
    /\ cor = NoCorrection
    /\ q = NoQuery
    /\ rsb = NoResorb

NextRec ==
    \/ RecorderStart
    \/ WarmUpHigh
    \/ WarmUpLow
    \/ RecordHigh
    \/ RecordLow

SpecRec == InitRec /\ [][NextRec]_vars

----------------------------------------------------------------------------
\* What recorder hands over

\* the value at index i carries the unreliable flag
FlaggedAt(i) == LSB(rs.duration[i]) = 1

\* i and j are flagged and a reliable value lies between them
SeparateRuns(i, j) ==
    /\ i < j
    /\ FlaggedAt(i)
    /\ FlaggedAt(j)
    /\ \E k \in (i + 1)..(j - 1) : ~FlaggedAt(k)

\* three consecutive reliable values lie between i and j
ThreeReliableBetween(i, j) ==
    \E k \in (i + 1)..(j - 3) : ~FlaggedAt(k) /\ ~FlaggedAt(k + 1) /\ ~FlaggedAt(k + 2)

\* C15: whatever the radio delivers and whatever recorder returns, in the
\* payload v[1..count] two unreliable values of different runs have at least
\* three consecutive reliable values between them, and the warm-up values
\* (the first 8) are all reliable
C15_RunsSeparated ==
    pc = "returned" =>
        /\ \A i \in 1..rs.count : i <= WARM_UP => ~FlaggedAt(i)
        /\ \A i, j \in 1..rs.count : SeparateRuns(i, j) => ThreeReliableBetween(i, j)

\* a payload with two runs of unreliable values behind the warm-up
C15_Witness ==
    /\ pc = "returned"
    /\ rs.count > WARM_UP
    /\ \E i, j \in 1..rs.count : SeparateRuns(i, j)

\* C16: on every return of recorder unreliable_count is the number of flagged
\* elements of v[1..count+2], also after an abort that cut the payload back
C16_CountsFlagged ==
    pc = "returned" =>
        rs.unreliable_count = Cardinality({i \in 1..(rs.count + 2) : FlaggedAt(i)})

----------------------------------------------------------------------------
\* Overlap detection

\* the lowest run of the histogram has exactly these counts in consecutive
\* bins and two empty bins behind it
LowestRun(bin_count, counts) ==
    \E start \in 1..(NB - Len(counts) - 1) :
        /\ \A b \in 1..(start - 1) : bin_count[b] = 0
        /\ \A i \in 1..Len(counts) : bin_count[start + i - 1] = counts[i]
        /\ bin_count[start + Len(counts)] = 0
        /\ bin_count[start + Len(counts) + 1] = 0

\* the corrector is running
InCorrector == pc \in {"corrector", "aggregate", "untrusted"}

\* C21 as stated: bin clustering raises the overlap flag on a run of exactly six
\* bins with the counts (3,2,1,2,3,1) followed by two empty bins
C21_BimodalRaisesOverlap ==
    [][(pc = "cluster" /\ LowestRun(h.bin_count, BimodalCounts)) => overlap']_vars

\* C21: bin clustering raises the overlap flag on a run of exactly six bins
\* with the counts (8,1,1,1,8,1) followed by two empty bins, whose sum of three
\* bins falls by more than 3 and rises again by more than 3, and categorizer
\* then never enters the corrector; on the run (3,2,1,2,3,1), whose sums of
\* three bins are 6, 5, 6, 6, the flag stays as it was
C21_DipRaisesOverlap ==
    [][/\ (pc = "cluster" /\ LowestRun(h.bin_count, DipCounts)) => overlap'
       /\ (pc = "cluster" /\ LowestRun(h.bin_count, BimodalCounts)
              /\ Cardinality({b \in 1..NB : h.bin_count[b] > 0}) = Len(BimodalCounts))
             => overlap' = overlap
       /\ overlap => ~InCorrector']_vars

\* categorizer has returned with the flag raised by the run (8,1,1,1,8,1)
C21_Witness ==
    /\ pc = "done"
    /\ overlap
    /\ \E t \in {<<>>, WeakEdge, StrayEdge} : v0 = TraceOf(Peaks(DipCounts, t))

----------------------------------------------------------------------------
\* The hit table

\* C22: TOO_MANY_HITS (code 6) is returned only when a first-hit index would
\* not fit into the hit table, and as a bin records FIRST_HITS = 2 indices at
\* most and NH = 2 * NB, it is never returned
C22_NeverTooManyHits == ret # CRC_6

----------------------------------------------------------------------------
\* The untrusted subsequences of a recording

\* the windows that the calls of extractor in the corrector return one after
\* the other, from extractor_ind on
RECURSIVE WindowsFrom(_, _, _)
WindowsFrom(vv, v_stop_ind, extractor_ind) ==
    IF ~extractor(vv, v_stop_ind, extractor_ind).found THEN <<>>
    ELSE <<extractor(vv, v_stop_ind, extractor_ind)>>
         \o WindowsFrom(vv, v_stop_ind, extractor(vv, v_stop_ind, extractor_ind).v_ind)

\* ss_len= ss_stop_ind - ss_start_ind + 1
SsLen(w) == w.ss_stop_ind - w.ss_start_ind + 1

\* the windows of the recording that recorder has handed over; a recording that
\* reaches the corrector has trusted values between its borders, the windows
\* are taken for every recording that is longer than the warm-up
RecordedWindows ==
    IF rs.count > WARM_UP THEN WindowsFrom(rs.duration, rs.count, 1 + BORDER_WIDTH) ELSE <<>>

\* C23: in whatever recorder hands over (normal end, abort or buffer limit),
\* every window that extractor finds has length 4 or 5, the lengths for which
\* the corrector does not return SUBSEQUENCE_LENGTH_ERROR
C23_WindowsFourOrFive ==
    pc = "returned" =>
        \A k \in 1..Len(RecordedWindows) : SsLen(RecordedWindows[k]) \in {4, 5}

\* an aborted recording with a window of three flagged values
C23_Witness ==
    /\ pc = "returned"
    /\ rec.ret_code > RRC_1
    /\ \E k \in 1..Len(RecordedWindows) : SsLen(RecordedWindows[k]) = 5

----------------------------------------------------------------------------
\* The aggregator on its own: a category set with a list of outliers of one
\* polarity, aggregated as after the clustering (more than MIN_SIZE values)
\* and as in the corrector (more than 0 values).

MaxOutliers == 4

\* durations of outliers; recorder stores LOW durations up to LONG_PAUSE / 2
OutlierValues == {6, 400, 440, 500, 60000, 60002}

\* the aggregations in front of the call: level 1, and level 2 behind
AggregBefore == {<<0, <<>>>>, <<1, <<362>>>>, <<1, <<362, 600>>>>}

\* the outliers are the HIGH durations 1, 3, .. of the trace
OutlierCells(vals) == [i \in 1..(2 * Len(vals)) |-> IF i % 2 = 1 THEN vals[(i + 1) \div 2] ELSE 400]

OutlierSet(vals, before) ==
    [NoCategories EXCEPT
        !.outlier_size = Len(vals),
        !.outlier_ind = [i \in 1..Len(vals) |-> 2 * i - 1],
        !.aggreg_size_1 = before[1],
        !.aggreg_size_2 = Len(before[2]),
        !.aggreg_center = before[2]]

OutlierLists == UNION {[1..n -> OutlierValues] : n \in 0..MaxOutliers}

InitAgg ==
    /\ \E vals \in OutlierLists, before \in AggregBefore :
          /\ v = TraceOf(OutlierCells(vals))
          /\ z = [p \in {LOW, HIGH} |-> IF p = HIGH THEN OutlierSet(vals, before) ELSE NoCategories]
    /\ zc = z
    /\ v0 = v
    /\ seqlen = 0
    /\ unrel = 0
    /\ pc = "aggregator"
    /\ pol = HIGH
    /\ overlap = FALSE
    /\ rc = CRC_0
    /\ ret = -1
    /\ h = NoHistogram
    /\ cor = NoCorrection
    /\ q = NoQuery
    /\ rsb = NoResorb
    /\ rs = NoSignals
    /\ rec = NoRecorder
    /\ printed = <<>>

\* the call has returned a: z and rc are its outputs
AggregatorReturned(a) ==
    /\ z' = [z EXCEPT ![pol] = a.z]
    /\ rc' = a.rc

\* aggregator (z, v, MIN_SIZE, rc): the call behind the border values
AggregateBorder ==
    /\ pc = "aggregator"
    /\ AggregatorReturned(aggregator(z[pol], v, MIN_SIZE))
    /\ pc' = "aggregated_l1"
    /\ UNCHANGED <<v, v0, seqlen, unrel, zc, pol, overlap, ret, h, cor, q, rsb, rs, rec, printed>>

\* aggregator (z[..], v, 0, rc): the calls of the corrector
AggregateResistant ==
    /\ pc = "aggregator"
    /\ AggregatorReturned(aggregator(z[pol], v, 0))
    /\ pc' = "aggregated_l2"
    /\ UNCHANGED <<v, v0, seqlen, unrel, zc, pol, overlap, ret, h, cor, q, rsb, rs, rec, printed>>

NextAgg == AggregateBorder \/ AggregateResistant

SpecAgg == InitAgg /\ [][NextAgg]_vars

\* v_min_count of the call that has returned
MinCountOf(position) == IF position = "aggregated_l1" THEN MIN_SIZE ELSE 0

\* the values of the outliers before the call, in ascending order
OutliersByValue(zz, vv) == SortSeq(ValuesOf(vv, zz.outlier_ind), <)

\* the last position of the group that starts at position i of the sorted
\* values: the jump to the next value is more than an eighth of that value
RECURSIVE GroupEnd(_, _)
GroupEnd(vals, i) ==
    IF i < Len(vals) /\ vals[i] + Shr(vals[i + 1], 3) > vals[i + 1]
    THEN GroupEnd(vals, i + 1)
    ELSE i

RECURSIVE SumOf(_, _, _)
SumOf(vals, i, j) == IF i > j THEN 0 ELSE vals[i] + SumOf(vals, i + 1, j)

\* the integer mean of the values i .. j, its lowest bit cleared
GroupCenter(vals, i, j) == MSB(SumOf(vals, i, j) \div (j - i + 1))

\* the centers of the maximal groups from position i on that hold more than
\* v_min_count values
RECURSIVE GroupCenters(_, _, _)
GroupCenters(vals, i, v_min_count) ==
    IF i > Len(vals) THEN <<>>
    ELSE (IF GroupEnd(vals, i) - i + 1 > v_min_count
          THEN <<GroupCenter(vals, i, GroupEnd(vals, i))>> ELSE <<>>)
         \o GroupCenters(vals, GroupEnd(vals, i) + 1, v_min_count)

\* level 1 is as it was, level 2 holds the centers of the groups
AggregatedGroups(before, after, vv, v_min_count) ==
    /\ after.aggreg_size_1 = before.aggreg_size_1
    /\ after.aggreg_size_2 = Len(after.aggreg_center)
    /\ SubSeq(after.aggreg_center, 1, after.aggreg_size_1)
          = SubSeq(before.aggreg_center, 1, before.aggreg_size_1)
    /\ SubSeq(after.aggreg_center, after.aggreg_size_1 + 1, after.aggreg_size_2)
          = GroupCenters(OutliersByValue(before, vv), 1, v_min_count)

\* C24: after aggregator has returned OK, the aggregations behind level 1 are
\* the centers (integer mean, lowest bit cleared) of the maximal groups of the
\* outliers sorted by value whose neighbours are less than an eighth of the
\* upper value apart, for the groups with more than v_min_count values, in
\* ascending order; level 1 and aggreg_size_1 are unchanged
C24_GroupsAggregated ==
    (pc \in {"aggregated_l1", "aggregated_l2"} /\ rc = CRC_0) =>
        AggregatedGroups(zc[pol], z[pol], v, MinCountOf(pc))

----------------------------------------------------------------------------
\* The separator barrier

\* the values of the outliers that clusterer has recorded for polarity p
RecordedOutlierValues(p) == {v0[zc[p].outlier_ind[i]] : i \in 1..zc[p].outlier_size}

\* ten times b, at most CEIL
TenTimes(b) == IF b >= CEIL \div 10 THEN CEIL ELSE 10 * b

\* the barrier stands ten times above b, and no outlier lies between b and the barrier
BarrierAbove(p, b) ==
    /\ zc[p].separator_barrier = TenTimes(b)
    /\ \A x \in RecordedOutlierValues(p) : ~(b < x /\ x < zc[p].separator_barrier)

\* the rounds of the loop that raises the barrier
RECURSIVE BarrierRounds(_, _, _, _)
BarrierRounds(vv, outlier_ind, v_old_barrier, v_new_barrier) ==
    IF v_new_barrier > v_old_barrier
    THEN 1 + BarrierRounds(vv, outlier_ind, v_new_barrier,
                           HighestBelow(vv, outlier_ind, 1, BarrierOf(v_new_barrier)))
    ELSE 0

----------------------------------------------------------------------------
\* The codes of the internal checks

\* histogram bin range, bin_start_ind, very strange, bin_stop_ind, merged
\* outlier size, aggregator error
InternalCodes == {CRC_10, CRC_11, CRC_12, CRC_13, CRC_16, CRC_17}

\* C26: categorizer never returns one of the codes 10, 11, 12, 13, 16, 17 of
\* the internal checks, and no call inside it ever sets one of them
C26_NoInternalCode == ret \notin InternalCodes /\ rc \notin InternalCodes

\* categorizer has returned OK after two clusters were recorded in a histogram
\* and the corrector has merged the outliers and aggregated the resistant ones
C26_Witness ==
    /\ pc = "done"
    /\ ret = CRC_0
    /\ z[HIGH].cluster_size >= 2
    /\ z[HIGH].aggreg_size_2 > z[HIGH].aggreg_size_1

----------------------------------------------------------------------------
\* The categorized sequence

\* the values of polarity p that the printer neither skips, nor marks as
\* separator, nor classifies: positions k of the line of p
Unclassified(p) ==
    {k \in 1..Len(printed[p]) :
        /\ v[2 * k - p] # 0
        /\ v[2 * k - p] < z[p].separator_barrier
        /\ ~classifier(z[p], v[2 * k - p], C_OPT_3).near}

\* C27: a non-zero value below the barrier that the classifier rejects under
\* C_OPT_3 is printed as "-" when it is below the center of the lowest cluster
\* of its polarity and as "?" otherwise, whatever the aggregations are
C27_DashBelowLowestCluster ==
    (pc = "done" /\ printed # <<>>) =>
        \A p \in {LOW, HIGH} : \A k \in Unclassified(p) :
            printed[p][k] = (IF v[2 * k - p] < z[p].cluster_center[1] THEN "-" ELSE "?")

----------------------------------------------------------------------------
\* The buffer of the merged outliers

\* C28: the scan of the merged outliers reads and writes m_outlier_ind only
\* at the positions 0 .. m_outlier_size - 1: no word in front of the buffer is
\* read or written, also when the lowest merged outlier is correctable
C28_MergedBufferWithinBounds == ~cor.before_read /\ ~cor.underflow

----------------------------------------------------------------------------
\* The outlier lists in the corrector

\* no index is recorded twice in the list s
Distinct(s) == \A i, j \in 1..Len(s) : i # j => s[i] # s[j]

\* C29: in the corrector and at its return each outlier list holds pairwise
\* distinct indices; an index that the promotion of a top-outlier of an
\* untrusted window has appended is not appended again by the resorber
C29_OutlierIndicesDistinct ==
    (InCorrector \/ pc \in {"print", "done"}) =>
        \A p \in {LOW, HIGH} : Distinct(z[p].outlier_ind)

----------------------------------------------------------------------------
\* Recordings shorter than the two borders

\* no index lies between the front border and the rear border of polarity p
InteriorEmpty(len, p) == len - p < StartInd(p) + 2 * BORDER_WIDTH

\* C30: for every sequence_length that the main loop hands over, also for
\* fewer than 2 * BORDER_WIDTH values (8 values after a normal end right
\* behind the warm-up), the bound v_stop_ind - BORDER_WIDTH of the scans does
\* not wrap around, the scans read v at 1 .. sequence_length + 2 only, and
\* with an empty interior categorizer returns NO_CLUSTER (7)
C30_ShortRecordingNoCluster ==
    /\ pc = "fill" => ~ScanLeavesArray(seqlen, pol)
    /\ (pc = "done" /\ InteriorEmpty(seqlen, HIGH)) => ret = CRC_7

====
